---- MODULE Spec2Model ----
(***************************************************************************)
(* The search-query pipeline of hlink (configs/search.py):                 *)
(*   interpret_search_query = Scanner.scan_tokens ; Parser.parse ;         *)
(*                            Interpreter.evaluate                         *)
(* Every call owns a Scanner, a Parser and an Interpreter.  A text is a    *)
(* sequence of one-character strings; Python's 0-based indices are kept    *)
(* and translated at the point of access (At, Slice).                      *)
(***************************************************************************)
EXTENDS Integers, Sequences, FiniteSets, TLC

\* ------------------------------------------------------------------ bounds
\* longest word sequence of the exhaustive input family
MaxWords == 3

\* the calls of interpret_search_query the model follows
Calls == {1, 2, 3}

\* ------------------------------------------------------- characters (str)
Digit == {"0", "1", "2", "3", "4", "5", "6", "7", "8", "9"}

LowerAlpha ==
  <<"a", "b", "c", "d", "e", "f", "g", "h", "i", "j", "k", "l", "m",
    "n", "o", "p", "q", "r", "s", "t", "u", "v", "w", "x", "y", "z">>

UpperAlpha ==
  <<"A", "B", "C", "D", "E", "F", "G", "H", "I", "J", "K", "L", "M",
    "N", "O", "P", "Q", "R", "S", "T", "U", "V", "W", "X", "Y", "Z">>

Range(s) == {s[i] : i \in DOMAIN s}

\* str.isspace
isspace(ch) == ch \in {" ", "\t", "\n"}

\* str.isdigit
isdigit(ch) == ch \in Digit

\* str.isalnum
isalnum(ch) == ch \in Digit \cup Range(LowerAlpha) \cup Range(UpperAlpha)

\* str.lower, one character
lower_char(ch) ==
  IF \E i \in DOMAIN UpperAlpha : UpperAlpha[i] = ch
  THEN LowerAlpha[CHOOSE i \in DOMAIN UpperAlpha : UpperAlpha[i] = ch]
  ELSE ch

\* str.lower
lower(s) == [i \in DOMAIN s |-> lower_char(s[i])]

Min(a, b) == IF a < b THEN a ELSE b

\* text[i], i counted from 0
At(s, i) == s[i + 1]

\* text[a:b], a and b counted from 0, clipped to the text as Python does
Slice(s, a, b) == SubSeq(s, a + 1, Min(b, Len(s)))

\* ------------------------------------------------------------ token model
Token(ttype, lexeme) == [ttype |-> ttype, lexeme |-> lexeme]

\* the None a failed Parser._match returns
None == Token("None", <<>>)

RESERVED_WORDS_SPACECRAFT_NAMES ==
  {<< <<"h", "1">>, "MODEL_H1" >>,
   << <<"h", "2">>, "MODEL_H2" >>,
   << <<"h", "3">>, "MODEL_H3" >>,
   << <<"h", "4">>, "MODEL_H4" >>,
   << <<"h", "5">>, "MODEL_H5" >>,
   << <<"h", "6">>, "MODEL_H6" >>}

\* hermes.SPACECRAFTS_NAMES, from which Configuration.MODELS is zipped
SPACECRAFTS_NAMES == <<"H1", "H2", "H3", "H4", "H5", "H6">>

\* Configuration.MODELS[i][0], i counted from 0
MODELS(i) == SPACECRAFTS_NAMES[i + 1]

RESERVED_WORDS_SPACECRAFT_NAMES_INVERSE_swapped(ttype) ==
  CASE ttype = "MODEL_H1" -> MODELS(0)
    [] ttype = "MODEL_H2" -> MODELS(1)
    [] ttype = "MODEL_H4" -> MODELS(2)
    [] ttype = "MODEL_H5" -> MODELS(4)
    [] ttype = "MODEL_H6" -> MODELS(5)
    [] ttype = "MODEL_H3" -> MODELS(3)

RESERVED_WORDS_SPACECRAFT_NAMES_INVERSE(ttype) ==
  CASE ttype = "MODEL_H1" -> MODELS(0)
    [] ttype = "MODEL_H2" -> MODELS(1)
    [] ttype = "MODEL_H4" -> MODELS(3)
    [] ttype = "MODEL_H5" -> MODELS(4)
    [] ttype = "MODEL_H6" -> MODELS(5)
    [] ttype = "MODEL_H3" -> MODELS(2)

RESERVED_WORDS_CONFIGURATION_NAMES ==
  {<< <<"a", "c", "q">>, "CONFG_ACQ" >>,
   << <<"a", "c", "q", "0">>, "CONFG_ACQ0" >>,
   << <<"a", "s", "i", "c", "0">>, "CONFG_ASIC0" >>,
   << <<"a", "s", "i", "c", "1">>, "CONFG_ASIC1" >>,
   << <<"b", "e", "e">>, "CONFG_BEE" >>,
   << <<"l", "i", "k", "t", "r", "g">>, "CONFG_LIKTRG" >>,
   << <<"o", "b", "s">>, "CONFG_OBS" >>}

\* a dict as a set of <<key, value>> pairs: its keys, its values, a lookup
Keys(dict) == {kv[1] : kv \in dict}
Values(dict) == {kv[2] : kv \in dict}
Lookup(dict, key) == (CHOOSE kv \in dict : kv[1] = key)[2]

\* {v: k for k, v in RESERVED_WORDS_CONFIGURATION_NAMES.items()}
RESERVED_WORDS_CONFIGURATION_NAMES_INVERSE ==
  {<<kv[2], kv[1]>> : kv \in RESERVED_WORDS_CONFIGURATION_NAMES}

RESERVED_WORDS ==
  RESERVED_WORDS_SPACECRAFT_NAMES
    \cup RESERVED_WORDS_CONFIGURATION_NAMES
    \cup {<< <<"u", "p", "l", "i", "n", "k", "e", "d">>, "UPLINKED" >>,
          << <<"s", "u", "b", "m", "i", "t", "t", "e", "d">>, "SUBMITTED" >>,
          << <<"b", "y">>, "BY" >>,
          << <<"o", "r">>, "OR" >>,
          << <<"a", "n", "d">>, "AND" >>,
          << <<"n", "o", "t">>, "NOT" >>}

\* a datetime regex: "d" stands for \d, any other entry for itself
DateShape == <<"d", "d", "d", "d", "-", "d", "d", "-", "d", "d">>
MinuteShape == DateShape \o <<"T", "d", "d", ":", "d", "d">>
SecondShape == MinuteShape \o <<":", "d", "d">>

\* the list literal handed to sorted(), as (pattern, length) pairs
DATETIME_PATTERNS_unsorted ==
  << <<SecondShape \o <<"Z">>, 20>>,
     <<SecondShape, 19>>,
     <<MinuteShape \o <<"Z">>, 17>>,
     <<MinuteShape, 16>>,
     <<DateShape, 10>> >>

\* sorted(list, key=lambda x: x[1], reverse=True)
RECURSIVE sorted_reverse(_)
sorted_reverse(list) ==
  IF list = <<>> THEN <<>>
  ELSE LET i == CHOOSE j \in DOMAIN list :
                  /\ \A k \in DOMAIN list : list[k][2] <= list[j][2]
                  /\ \A k \in 1..(j - 1) : list[k][2] < list[j][2]
           rest == [k \in 1..(Len(list) - 1) |->
                      IF k < i THEN list[k] ELSE list[k + 1]]
       IN <<list[i]>> \o sorted_reverse(rest)

\* a faulty order: the shortest pattern is tried first
DATETIME_PATTERNS_shortest_first ==
  [k \in DOMAIN DATETIME_PATTERNS_unsorted |->
     DATETIME_PATTERNS_unsorted[Len(DATETIME_PATTERNS_unsorted) + 1 - k]]

DATETIME_PATTERNS == sorted_reverse(DATETIME_PATTERNS_unsorted)

\* re.match(pattern, s) for the anchored fixed-length datetime patterns
re_match(pattern, s) ==
  /\ Len(s) = Len(pattern)
  /\ \A i \in DOMAIN pattern :
       IF pattern[i] = "d" THEN isdigit(s[i]) ELSE s[i] = pattern[i]

\* ------------------------------------------------------------------ state
VARIABLES
  pc,                   \* where each call is in interpret_search_query
  query,                \* the argument of each call
  Scanner_text,         \* Scanner.text
  Scanner_token_list,   \* Scanner.token_list
  Scanner_start,        \* Scanner.start
  Scanner_current,      \* Scanner.current
  Parser_tokens,        \* Parser.tokens
  Parser_current,       \* Parser.current
  stack,                \* the parser's active _or/_and/_unary/_primary calls
  ret,                  \* the expression the last finished parser call returned
  ast,                  \* the tree Parser.parse returned
  result                \* what interpret_search_query returned or raised

vars ==
  <<pc, query, Scanner_text, Scanner_token_list, Scanner_start, Scanner_current,
    Parser_tokens, Parser_current, stack, ret, ast, result>>

scanner_vars ==
  <<query, Scanner_text, Scanner_token_list, Scanner_start, Scanner_current>>

parser_vars == <<Parser_tokens, Parser_current, stack, ret, ast>>

\* ---------------------------------------------------------------- Scanner
\* Scanner._at_end
Scanner_at_end(text, current) == current >= Len(text)

\* Scanner._peek
Scanner_peek(text, current) ==
  IF Scanner_at_end(text, current) THEN "" ELSE At(text, current)

\* Scanner._match: would the next character be matched (and consumed)
Scanner_match(text, current, expected) ==
  /\ ~Scanner_at_end(text, current)
  /\ At(text, current) = expected

\* Scanner._catch_datetime, the loop from pattern k on: the matched lexeme
\* (or "" as the empty sequence) and the new value of current
RECURSIVE catch_datetime_from(_, _, _)
catch_datetime_from(k, text, current) ==
  IF k > Len(DATETIME_PATTERNS)
  THEN [dt |-> <<>>, current |-> current]
  ELSE LET pattern == DATETIME_PATTERNS[k][1]
           pattern_length == DATETIME_PATTERNS[k][2]
           s == Slice(text, current - 1, current + pattern_length - 1)
       IN IF re_match(pattern, s)
          THEN [dt |-> s, current |-> current + pattern_length - 1]
          ELSE catch_datetime_from(k + 1, text, current)

\* a faulty Scanner._catch_datetime: without a match the rest of the run of
\* digits is consumed too
RECURSIVE digits_end(_, _)
digits_end(text, current) ==
  IF ~Scanner_at_end(text, current) /\ isdigit(At(text, current))
  THEN digits_end(text, current + 1)
  ELSE current

catch_datetime_whole_number(text, current) ==
  LET m == catch_datetime_from(1, text, current)
  IN IF m.dt = <<>> THEN [dt |-> <<>>, current |-> digits_end(text, current)]
     ELSE m

\* a faulty Scanner._catch_datetime: without a match the digit is put back
catch_datetime_putting_back(text, current) ==
  LET m == catch_datetime_from(1, text, current)
  IN IF m.dt = <<>> THEN [dt |-> <<>>, current |-> current - 1] ELSE m

\* Scanner._catch_datetime
catch_datetime(text, current) == catch_datetime_from(1, text, current)

\* Scanner._catch_literal: the value of current after the while loop
RECURSIVE catch_literal_end(_, _)
catch_literal_end(text, current) ==
  LET next_char == Scanner_peek(text, current)
  IN IF next_char # "" /\ (isalnum(next_char) \/ next_char \in {"_", "."})
     THEN catch_literal_end(text, current + 1)
     ELSE current

\* a faulty lookup: the literal is looked up as typed, not lower-cased
literal_token_case_sensitive(literal) ==
  IF literal \in Keys(RESERVED_WORDS)
  THEN Token(Lookup(RESERVED_WORDS, literal), literal)
  ELSE Token("LITERAL", literal)

\* the token Scanner._scan_token makes of a literal run
literal_token(literal) ==
  IF lower(literal) \in Keys(RESERVED_WORDS)
  THEN Token(Lookup(RESERVED_WORDS, lower(literal)), literal)
  ELSE Token("LITERAL", literal)

\* the one- or two-character operator token of lines 161-166
operator_token(text, current, two, two_lexeme, one, one_lexeme) ==
  IF Scanner_match(text, current, "=")
  THEN [current |-> current + 1, tokens |-> <<Token(two, two_lexeme)>>]
  ELSE [current |-> current, tokens |-> <<Token(one, one_lexeme)>>]

\* a faulty Scanner._scan_token: a character that starts no word is skipped
scan_token_skipping(text, current0) ==
  LET c == At(text, current0)
      current == current0 + 1
  IN CASE c = "=" -> [current |-> current, tokens |-> <<Token("EQUAL", <<"=">>)>>]
       [] c = "(" -> [current |-> current, tokens |-> <<Token("LEFT_PAREN", <<"(">>)>>]
       [] c = ")" -> [current |-> current, tokens |-> <<Token("RIGHT_PAREN", <<")">>)>>]
       [] isspace(c) -> [current |-> current, tokens |-> <<>>]
       [] c = ">" -> operator_token(text, current, "GREATER_EQUAL", <<">", "=">>,
                                    "GREATER", <<">">>)
       [] c = "<" -> operator_token(text, current, "LESSER_EQUAL", <<"<", "=">>,
                                    "LESSER", <<"<">>)
       [] c = "!" -> operator_token(text, current, "BANG_EQUAL", <<"!", "=">>,
                                    "NOT", <<"!">>)
       [] isdigit(c) ->
            LET m == catch_datetime(text, current)
            IN [current |-> m.current,
                tokens |-> IF m.dt # <<>> THEN <<Token("DATETIME", m.dt)>> ELSE <<>>]
       [] ~isalnum(c) /\ c \notin {"_", "."} -> [current |-> current, tokens |-> <<>>]
       [] OTHER ->
            LET end == catch_literal_end(text, current)
            IN [current |-> end,
                tokens |-> <<literal_token(Slice(text, current0, end))>>]

\* Scanner._scan_token with start = current0: the new current and the tokens
\* appended to token_list
scan_token(text, current0) ==
  LET c == At(text, current0)
      current == current0 + 1
  IN CASE c = "=" -> [current |-> current, tokens |-> <<Token("EQUAL", <<"=">>)>>]
       [] c = "(" -> [current |-> current, tokens |-> <<Token("LEFT_PAREN", <<"(">>)>>]
       [] c = ")" -> [current |-> current, tokens |-> <<Token("RIGHT_PAREN", <<")">>)>>]
       [] isspace(c) -> [current |-> current, tokens |-> <<>>]
       [] c = ">" -> operator_token(text, current, "GREATER_EQUAL", <<">", "=">>,
                                    "GREATER", <<">">>)
       [] c = "<" -> operator_token(text, current, "LESSER_EQUAL", <<"<", "=">>,
                                    "LESSER", <<"<">>)
       [] c = "!" -> operator_token(text, current, "BANG_EQUAL", <<"!", "=">>,
                                    "NOT", <<"!">>)
       [] isdigit(c) ->
            LET m == catch_datetime(text, current)
            IN [current |-> m.current,
                tokens |-> IF m.dt # <<>> THEN <<Token("DATETIME", m.dt)>> ELSE <<>>]
       [] OTHER ->
            LET end == catch_literal_end(text, current)
            IN [current |-> end,
                tokens |-> <<literal_token(Slice(text, current0, end))>>]

\* ------------------------------------------------------------- Expression
Binary(left, operator, right) ==
  [node |-> "Binary", left |-> left, operator |-> operator, right |-> right]

Unary(operator, right) ==
  [node |-> "Unary", operator |-> operator, right |-> right]

Grouping(expression) == [node |-> "Grouping", expression |-> expression]

Query(key, operator, value) ==
  [node |-> "Query", key |-> key, operator |-> operator, value |-> value]

\* no expression held yet
NoExpr == [node |-> "None"]

\* ----------------------------------------------------------------- Parser
COMPARATORS ==
  {"GREATER", "GREATER_EQUAL", "LESSER", "LESSER_EQUAL", "EQUAL", "BANG_EQUAL"}

\* Parser._peek
Parser_peek(tokens, current) == At(tokens, current)

\* Parser._at_end
Parser_at_end(tokens, current) == Parser_peek(tokens, current).ttype = "EOF"

\* Parser._check
Parser_check(tokens, current, expected) ==
  /\ ~Parser_at_end(tokens, current)
  /\ Parser_peek(tokens, current).ttype \in expected

\* Parser._advance: the new value of current
Parser_advance(tokens, current) ==
  IF ~Parser_at_end(tokens, current) THEN current + 1 ELSE current

\* Parser._match: the token matched, or None; Matched tells them apart and
\* AfterMatch is the value of current after the call
Parser_match(tokens, current, expected) ==
  IF Parser_at_end(tokens, current) THEN None
  ELSE IF Parser_peek(tokens, current).ttype \in expected
       THEN Parser_peek(tokens, current)
       ELSE None

Matched(token) == token # None

\* a faulty Parser._match: a failed match steps back to the previous token
AfterMatch_backtracking(tokens, current, expected) ==
  IF Matched(Parser_match(tokens, current, expected))
  THEN Parser_advance(tokens, current)
  ELSE IF current > 0 THEN current - 1 ELSE current

AfterMatch(tokens, current, expected) ==
  IF Matched(Parser_match(tokens, current, expected))
  THEN Parser_advance(tokens, current)
  ELSE current

ParseError(message, lexemes) ==
  [status |-> "ParseError", message |-> message, lexemes |-> lexemes]

\* one active call of a parser method: where it is (at), and its locals
Frame(fn, at, expr, operator) ==
  [fn |-> fn, at |-> at, expr |-> expr, operator |-> operator]

Enter(fn) == Frame(fn, "begin", NoExpr, None)

\* the loop test of Parser._or (line 314)
or_continues(tokens, current) == Matched(Parser_match(tokens, current, {"OR"}))

\* a faulty loop test of Parser._and: only an explicit `and` continues
and_continues_explicit_only(tokens, current) ==
  Matched(Parser_match(tokens, current, {"AND"}))

\* a faulty loop test of Parser._and: juxtaposition does not stop at ')'
and_continues_past_paren(tokens, current) ==
  \/ Matched(Parser_match(tokens, current, {"AND"}))
  \/ /\ ~Parser_at_end(tokens, current)
     /\ ~Parser_check(tokens, current, {"OR"})

\* a faulty loop test of Parser._and: juxtaposition does not stop at `or`
and_continues_through_or(tokens, current) ==
  \/ Matched(Parser_match(tokens, current, {"AND"}))
  \/ /\ ~Parser_at_end(tokens, current)
     /\ ~Parser_check(tokens, current, {"RIGHT_PAREN"})

\* the loop test of Parser._and (lines 324-326)
and_continues(tokens, current) ==
  \/ Matched(Parser_match(tokens, current, {"AND"}))
  \/ /\ ~Parser_at_end(tokens, current)
     /\ ~Parser_check(tokens, current, {"OR", "RIGHT_PAREN"})

\* a faulty operator: the conjunction is recorded as a disjunction
and_operator_as_or(tokens, current) ==
  LET matched == Parser_match(tokens, current, {"AND"})
  IN Token("OR", IF Matched(matched) THEN matched.lexeme
                 ELSE <<"_", "a", "n", "d">>)

\* the operator token Parser._and builds (line 327)
and_operator(tokens, current) ==
  LET matched == Parser_match(tokens, current, {"AND"})
  IN Token("AND", IF Matched(matched) THEN matched.lexeme
                  ELSE <<"_", "a", "n", "d">>)

\* a faulty operand of `not`: a whole Unary
NOT_OPERAND_unary == "_unary"

\* the method Parser._unary calls for the operand of `not` (line 336)
NOT_OPERAND == "_primary"

\* a faulty parser token: a type the interpreter has no mapping for
ISNULL_unmapped == Token("TRUE", <<"_", "i", "s", "n", "u", "l", "l">>)

ISNULL == Token("ISNULL", <<"_", "i", "s", "n", "u", "l", "l">>)

\* a faulty objective of a comparator: a literal passes for a datetime
DATETIME_OBJECTIVE_or_literal == {"DATETIME", "LITERAL"}

\* the token types Parser._primary takes after a comparator (line 356)
DATETIME_OBJECTIVE == {"DATETIME"}

\* a faulty objective of `by`: any reserved word passes for a username
USERNAME_OBJECTIVE_or_reserved == {"LITERAL"} \cup Values(RESERVED_WORDS)

\* the token types Parser._primary takes after `by` (line 363)
USERNAME_OBJECTIVE == {"LITERAL"}

\* Python's tokens[i], a negative i counting from the end
Item(tokens, i) == IF i < 0 THEN tokens[Len(tokens) + i + 1] ELSE At(tokens, i)

\* a faulty error of Parser._primary: it names the previous token
primary_error_previous(tokens, current) ==
  ParseError("An expression cannot start with",
             <<Item(tokens, current - 1).lexeme>>)

\* the error Parser._primary raises when no alternative matched (line 374)
primary_error(tokens, current) ==
  ParseError("An expression cannot start with",
             <<Parser_peek(tokens, current).lexeme>>)

\* a faulty Parser._consume: the end of the input passes for the token
Parser_consume_or_end(tokens, current, expected) ==
  \/ Parser_check(tokens, current, {expected})
  \/ Parser_at_end(tokens, current)

\* Parser._consume: is the token consumed (or is the error raised)
Parser_consume(tokens, current, expected) ==
  Parser_check(tokens, current, {expected})

\* Parser._primary after a status word was matched (lines 346-368), current
\* being the position after the status word
primary_status(tokens, current, noun) ==
  LET predicate == Parser_match(tokens, current, COMPARATORS)
      by == Parser_match(tokens, current, {"BY"})
      after == current + 1
  IN IF Matched(predicate)
     THEN LET objective == Parser_match(tokens, after, DATETIME_OBJECTIVE)
          IN IF Matched(objective)
             THEN [kind |-> "return", current |-> after + 1,
                   expr |-> Query(noun, predicate, objective)]
             ELSE [kind |-> "raise", current |-> after,
                   error |-> ParseError("A valid datetime is expected after",
                                        <<noun.lexeme, predicate.lexeme>>)]
     ELSE IF Matched(by)
     THEN LET objective == Parser_match(tokens, after, USERNAME_OBJECTIVE)
          IN IF Matched(objective)
             THEN [kind |-> "return", current |-> after + 1,
                   expr |-> Query(noun, by, objective)]
             ELSE [kind |-> "raise", current |-> after,
                   error |-> ParseError("An username is expected after",
                                        <<noun.lexeme, by.lexeme>>)]
     ELSE [kind |-> "return", current |-> current,
           expr |-> Query(noun, ISNULL, ISNULL)]

\* Parser._primary up to its return, raise or call of _expression
primary(tokens, current) ==
  LET model == Parser_match(tokens, current, Values(RESERVED_WORDS_SPACECRAFT_NAMES))
      confg == Parser_match(tokens, current, Values(RESERVED_WORDS_CONFIGURATION_NAMES))
      noun == Parser_match(tokens, current, {"SUBMITTED", "UPLINKED"})
      paren == Parser_match(tokens, current, {"LEFT_PAREN"})
  IN IF Matched(model)
     THEN [kind |-> "return", current |-> current + 1,
           expr |-> Query(Token("MODEL", <<"_", "m", "o", "d", "e", "l">>),
                          Token("EQUAL", <<"_", "=">>), model)]
     ELSE IF Matched(confg)
     THEN [kind |-> "return", current |-> current + 1,
           expr |-> Query(confg, ISNULL, ISNULL)]
     ELSE IF Matched(noun)
     THEN primary_status(tokens, current + 1, noun)
     ELSE IF Matched(paren)
     THEN [kind |-> "call", current |-> current + 1]
     ELSE [kind |-> "raise", current |-> current,
           error |-> primary_error(tokens, current)]

\* ------------------------------------------------------------ Interpreter
\* what an evaluation gives: a value, or the exception it raised
Ok(value) == [status |-> "ok", value |-> value]

InterpreterError(message) == [status |-> "InterpreterError", message |-> message]

ValueError == [status |-> "ValueError"]

Pending == [status |-> "pending"]

\* django.db.models.Q(**{keyword: value}); the keyword "a__b" is <<"a", "b">>
Q(keyword, value) == [q |-> "Q", keyword |-> keyword, value |-> value]

\* left & right
Q_and(left, right) == [q |-> "AND", left |-> left, right |-> right]

\* left | right
Q_or(left, right) == [q |-> "OR", left |-> left, right |-> right]

\* ~right
Q_not(right) == [q |-> "NOT", right |-> right]

\* int() of a run of decimal digits
DigitValue(ch) ==
  CHOOSE n \in 0..9 : <<"0", "1", "2", "3", "4", "5", "6", "7", "8", "9">>[n + 1] = ch

RECURSIVE int(_)
int(s) ==
  IF s = <<>> THEN 0
  ELSE 10 * int(SubSeq(s, 1, Len(s) - 1)) + DigitValue(s[Len(s)])

is_leap(year) ==
  /\ year % 4 = 0
  /\ (year % 100 # 0 \/ year % 400 = 0)

days_in_month(year, month) ==
  IF month = 2 THEN (IF is_leap(year) THEN 29 ELSE 28)
  ELSE IF month \in {4, 6, 9, 11} THEN 30 ELSE 31

\* datetime.fromisoformat on a lexeme, followed by timezone.make_aware when
\* the value is naive: Ok(datetime), or ValueError when the lexeme has none of
\* the five shapes of DATETIME_PATTERNS or its fields name no date or time of
\* day
fromisoformat_aware(lexeme) ==
  LET n == Len(lexeme)
      utc == lexeme[n] = "Z"
      body == IF utc THEN n - 1 ELSE n
      year == int(Slice(lexeme, 0, 4))
      month == int(Slice(lexeme, 5, 7))
      day == int(Slice(lexeme, 8, 10))
      hour == IF body >= 16 THEN int(Slice(lexeme, 11, 13)) ELSE 0
      minute == IF body >= 16 THEN int(Slice(lexeme, 14, 16)) ELSE 0
      second == IF body >= 19 THEN int(Slice(lexeme, 17, 19)) ELSE 0
  IN IF /\ \E k \in DOMAIN DATETIME_PATTERNS :
             re_match(DATETIME_PATTERNS[k][1], lexeme)
        /\ year >= 1
        /\ month \in 1..12
        /\ day \in 1..days_in_month(year, month)
        /\ hour <= 23
        /\ minute <= 59
        /\ second <= 59
     THEN Ok([year |-> year, month |-> month, day |-> day, hour |-> hour,
              minute |-> minute, second |-> second,
              tzinfo |-> IF utc THEN "UTC" ELSE "default"])
     ELSE ValueError

\* a faulty comparator table of visit_query: > and >= exchanged
datetime_lookup_swapped(noun, ttype, dt) ==
  CASE ttype = "GREATER" -> Q(<<noun, "gte">>, dt)
    [] ttype = "GREATER_EQUAL" -> Q(<<noun, "gt">>, dt)
    [] ttype = "LESSER" -> Q(<<noun, "lt">>, dt)
    [] ttype = "LESSER_EQUAL" -> Q(<<noun, "lte">>, dt)
    [] ttype = "EQUAL" -> Q(<<noun>>, dt)
    [] ttype = "BANG_EQUAL" -> Q_not(Q(<<noun>>, dt))

\* Interpreter.visit_query, lines 498-509
datetime_lookup(noun, ttype, dt) ==
  CASE ttype = "GREATER" -> Q(<<noun, "gt">>, dt)
    [] ttype = "GREATER_EQUAL" -> Q(<<noun, "gte">>, dt)
    [] ttype = "LESSER" -> Q(<<noun, "lt">>, dt)
    [] ttype = "LESSER_EQUAL" -> Q(<<noun, "lte">>, dt)
    [] ttype = "EQUAL" -> Q(<<noun>>, dt)
    [] ttype = "BANG_EQUAL" -> Q_not(Q(<<noun>>, dt))

\* a faulty attribution of visit_query: both status words give the author
by_relation_author_only(ttype) == "author"

\* Interpreter.visit_query, line 514
by_relation(ttype) == IF ttype = "SUBMITTED" THEN "author" ELSE "uplinked_by"

\* a faulty flag of visit_query: both status words give the uplinked flag
status_flag_uplinked_only(ttype) == "uplinked"

\* Interpreter.visit_query, line 518
status_flag(ttype) == IF ttype = "SUBMITTED" THEN "submitted" ELSE "uplinked"

\* a faulty visit_query branch: the config token's lexeme, not the table entry
config_field_lexeme(key) == key.lexeme

\* Interpreter.visit_query, line 481: the field a config-type token names
config_field(key) == Lookup(RESERVED_WORDS_CONFIGURATION_NAMES_INVERSE, key.ttype)

\* Interpreter.visit_query
visit_query(expr) ==
  IF expr.key.ttype = "MODEL"
  THEN IF expr.operator.ttype = "EQUAL"
       THEN Ok(Q(<<"model">>, RESERVED_WORDS_SPACECRAFT_NAMES_INVERSE(expr.value.ttype)))
       ELSE InterpreterError("Invalid model query")
  ELSE IF expr.key.ttype \in Keys(RESERVED_WORDS_CONFIGURATION_NAMES_INVERSE)
  THEN IF expr.operator.ttype = "ISNULL" /\ expr.value.ttype = "ISNULL"
       THEN Ok(Q(<<config_field(expr.key), "isnull">>, FALSE))
       ELSE InterpreterError("Invalid configuration query")
  ELSE IF expr.key.ttype \in {"SUBMITTED", "UPLINKED"}
  THEN IF expr.operator.ttype \in COMPARATORS
       THEN LET noun == IF expr.key.ttype = "SUBMITTED"
                        THEN "submit_time" ELSE "uplink_time"
                dt == fromisoformat_aware(expr.value.lexeme)
            IN IF dt.status # "ok" THEN dt
               ELSE Ok(datetime_lookup(noun, expr.operator.ttype, dt.value))
       ELSE IF expr.operator.ttype = "BY"
       THEN Ok(Q(<<by_relation(expr.key.ttype), "username">>, expr.value.lexeme))
       ELSE IF expr.operator.ttype = "ISNULL" /\ expr.value.ttype = "ISNULL"
       THEN Ok(Q(<<status_flag(expr.key.ttype)>>, TRUE))
       ELSE InterpreterError("Invalid status query")
  ELSE InterpreterError("Invalid status query")

\* a faulty visit_binary: the operands are combined right to left
combine_binary_reversed(ttype, left, right) ==
  IF ttype = "AND" THEN Ok(Q_and(right, left))
  ELSE IF ttype = "OR" THEN Ok(Q_or(right, left))
  ELSE InterpreterError("Invalid binary expression")

\* Interpreter.visit_binary, lines 455-459
combine_binary(ttype, left, right) ==
  IF ttype = "AND" THEN Ok(Q_and(left, right))
  ELSE IF ttype = "OR" THEN Ok(Q_or(left, right))
  ELSE InterpreterError("Invalid binary expression")

\* Interpreter.evaluate: expr.accept(self) dispatches on the node's class
RECURSIVE evaluate(_)
evaluate(expr) ==
  CASE expr.node = "Binary" ->
         LET left == evaluate(expr.left)
         IN IF left.status # "ok" THEN left
            ELSE LET right == evaluate(expr.right)
                 IN IF right.status # "ok" THEN right
                    ELSE combine_binary(expr.operator.ttype, left.value, right.value)
    [] expr.node = "Unary" ->
         LET right == evaluate(expr.right)
         IN IF right.status # "ok" THEN right
            ELSE IF expr.operator.ttype = "NOT" THEN Ok(Q_not(right.value))
            ELSE InterpreterError("Invalid unary expression")
    [] expr.node = "Grouping" -> evaluate(expr.expression)
    [] expr.node = "Query" -> visit_query(expr)

\* ---------------------------------------------------------------- actions
Top(c) == stack[c][Len(stack[c])]

Pop(c) == SubSeq(stack[c], 1, Len(stack[c]) - 1)

\* the running method returns value to its caller; the return of the
\* outermost _or is the return of Parser.parse
Return(c, value) ==
  /\ stack' = [stack EXCEPT ![c] = Pop(c)]
  /\ ret' = [ret EXCEPT ![c] = value]
  /\ IF Len(stack[c]) = 1
     THEN /\ ast' = [ast EXCEPT ![c] = value]
          /\ pc' = [pc EXCEPT ![c] = "interpret"]
     ELSE UNCHANGED <<ast, pc>>
  /\ UNCHANGED result

\* the running method keeps frame as its own state and calls method fn
CallMethod(c, frame, fn) ==
  /\ stack' = [stack EXCEPT ![c] = Append(Pop(c), frame) \o <<Enter(fn)>>]
  /\ UNCHANGED <<ret, ast, pc, result>>

\* an exception leaves every active method and interpret_search_query
Raise(c, error) ==
  /\ stack' = [stack EXCEPT ![c] = <<>>]
  /\ result' = [result EXCEPT ![c] = error]
  /\ pc' = [pc EXCEPT ![c] = "done"]
  /\ UNCHANGED <<ret, ast>>

\* a faulty Scanner.__init__: the list is the one the scanner of the call
\* before holds, not a new one
token_list_of_previous_scanner(c) ==
  IF c - 1 \in Calls THEN Scanner_token_list[c - 1] ELSE <<>>

\* a faulty Scanner.__init__: every scanner holds the list of the first one
token_list_of_first_scanner(c) == Scanner_token_list[1]

\* the list Scanner.__init__ gives token_list (line 137)
new_token_list(c) == <<>>

\* a faulty end of scan_tokens: EOF is added twice
with_eof_twice(token_list) ==
  token_list \o <<Token("EOF", <<>>), Token("EOF", <<>>)>>

\* the list Scanner.scan_tokens returns (line 147)
with_eof(token_list) == Append(token_list, Token("EOF", <<>>))

\* interpret_search_query, line 17: Scanner(query)
Scanner_init(c) ==
  /\ pc[c] = "called"
  /\ Scanner_text' = [Scanner_text EXCEPT ![c] = query[c]]
  /\ Scanner_token_list' = [Scanner_token_list EXCEPT ![c] = new_token_list(c)]
  /\ Scanner_start' = [Scanner_start EXCEPT ![c] = 0]
  /\ Scanner_current' = [Scanner_current EXCEPT ![c] = 0]
  /\ pc' = [pc EXCEPT ![c] = "scan"]
  /\ UNCHANGED <<query, parser_vars, result>>

\* one iteration of the loop of Scanner.scan_tokens (lines 144-146)
Scanner_scan_token(c) ==
  /\ pc[c] = "scan"
  /\ ~Scanner_at_end(Scanner_text[c], Scanner_current[c])
  /\ LET scanned == scan_token(Scanner_text[c], Scanner_current[c])
     IN /\ Scanner_start' = [Scanner_start EXCEPT ![c] = Scanner_current[c]]
        /\ Scanner_current' = [Scanner_current EXCEPT ![c] = scanned.current]
        /\ Scanner_token_list' =
             [Scanner_token_list EXCEPT ![c] = @ \o scanned.tokens]
  /\ UNCHANGED <<pc, query, Scanner_text, parser_vars, result>>

\* the end of Scanner.scan_tokens (lines 147-148) and Parser.__init__
Scanner_scan_tokens_return(c) ==
  /\ pc[c] = "scan"
  /\ Scanner_at_end(Scanner_text[c], Scanner_current[c])
  /\ LET token_list == with_eof(Scanner_token_list[c])
     IN /\ Scanner_token_list' = [Scanner_token_list EXCEPT ![c] = token_list]
        /\ Parser_tokens' = [Parser_tokens EXCEPT ![c] = token_list]
  /\ Parser_current' = [Parser_current EXCEPT ![c] = 0]
  /\ pc' = [pc EXCEPT ![c] = "parse"]
  /\ UNCHANGED <<query, Scanner_text, Scanner_start, Scanner_current, stack, ret,
                 ast, result>>

\* Parser.parse and Parser._expression, up to the call of _or
Parser_parse(c) ==
  /\ pc[c] = "parse"
  /\ pc' = [pc EXCEPT ![c] = "parsing"]
  /\ stack' = [stack EXCEPT ![c] = <<Enter("_or")>>]
  /\ UNCHANGED <<scanner_vars, Parser_tokens, Parser_current, ret, ast, result>>

\* Parser._or, line 312
Parser_or_begin(c) ==
  /\ pc[c] = "parsing"
  /\ Top(c).fn = "_or" /\ Top(c).at = "begin"
  /\ CallMethod(c, [Top(c) EXCEPT !.at = "first"], "_and")
  /\ UNCHANGED <<scanner_vars, Parser_tokens, Parser_current>>

\* Parser._or, lines 314-319: _and has returned; one test of the loop
Parser_or_loop(c) ==
  /\ pc[c] = "parsing"
  /\ Top(c).fn = "_or" /\ Top(c).at \in {"first", "right"}
  /\ LET expr == IF Top(c).at = "first" THEN ret[c]
                 ELSE Binary(Top(c).expr, Top(c).operator, ret[c])
         tokens == Parser_tokens[c]
         current == Parser_current[c]
     IN IF or_continues(tokens, current)
        THEN /\ Parser_current' =
                  [Parser_current EXCEPT ![c] = AfterMatch(tokens, current, {"OR"})]
             /\ CallMethod(c, Frame("_or", "right", expr,
                                    Parser_match(tokens, current, {"OR"})), "_and")
        ELSE /\ Return(c, expr)
             /\ UNCHANGED Parser_current
  /\ UNCHANGED <<scanner_vars, Parser_tokens>>

\* Parser._and, line 322
Parser_and_begin(c) ==
  /\ pc[c] = "parsing"
  /\ Top(c).fn = "_and" /\ Top(c).at = "begin"
  /\ CallMethod(c, [Top(c) EXCEPT !.at = "first"], "_unary")
  /\ UNCHANGED <<scanner_vars, Parser_tokens, Parser_current>>

\* Parser._and, lines 324-331: _unary has returned; one test of the loop
Parser_and_loop(c) ==
  /\ pc[c] = "parsing"
  /\ Top(c).fn = "_and" /\ Top(c).at \in {"first", "right"}
  /\ LET expr == IF Top(c).at = "first" THEN ret[c]
                 ELSE Binary(Top(c).expr, Top(c).operator, ret[c])
         tokens == Parser_tokens[c]
         current == Parser_current[c]
     IN IF and_continues(tokens, current)
        THEN /\ Parser_current' =
                  [Parser_current EXCEPT ![c] = AfterMatch(tokens, current, {"AND"})]
             /\ CallMethod(c, Frame("_and", "right", expr,
                                    and_operator(tokens, current)), "_unary")
        ELSE /\ Return(c, expr)
             /\ UNCHANGED Parser_current
  /\ UNCHANGED <<scanner_vars, Parser_tokens>>

\* Parser._unary, lines 334-338, up to the call of _primary
Parser_unary_begin(c) ==
  /\ pc[c] = "parsing"
  /\ Top(c).fn = "_unary" /\ Top(c).at = "begin"
  /\ LET tokens == Parser_tokens[c]
         current == Parser_current[c]
         operator == Parser_match(tokens, current, {"NOT"})
     IN /\ Parser_current' =
             [Parser_current EXCEPT ![c] = AfterMatch(tokens, current, {"NOT"})]
        /\ IF Matched(operator)
           THEN CallMethod(c, Frame("_unary", "right", NoExpr, operator), NOT_OPERAND)
           ELSE CallMethod(c, Frame("_unary", "tail", NoExpr, None), "_primary")
  /\ UNCHANGED <<scanner_vars, Parser_tokens>>

\* Parser._unary, lines 337 and 338: _primary has returned
Parser_unary_return(c) ==
  /\ pc[c] = "parsing"
  /\ Top(c).fn = "_unary" /\ Top(c).at \in {"right", "tail"}
  /\ Return(c, IF Top(c).at = "right" THEN Unary(Top(c).operator, ret[c])
               ELSE ret[c])
  /\ UNCHANGED <<scanner_vars, Parser_tokens, Parser_current>>

\* Parser._primary, lines 341-374, up to its return, raise or call
Parser_primary(c) ==
  /\ pc[c] = "parsing"
  /\ Top(c).fn = "_primary" /\ Top(c).at = "begin"
  /\ LET step == primary(Parser_tokens[c], Parser_current[c])
     IN /\ Parser_current' = [Parser_current EXCEPT ![c] = step.current]
        /\ CASE step.kind = "return" -> Return(c, step.expr)
             [] step.kind = "raise" -> Raise(c, step.error)
             [] step.kind = "call" ->
                  CallMethod(c, [Top(c) EXCEPT !.at = "group"], "_or")
  /\ UNCHANGED <<scanner_vars, Parser_tokens>>

\* Parser._primary, lines 371-372: _expression has returned
Parser_primary_group(c) ==
  /\ pc[c] = "parsing"
  /\ Top(c).fn = "_primary" /\ Top(c).at = "group"
  /\ LET tokens == Parser_tokens[c]
         current == Parser_current[c]
     IN IF Parser_consume(tokens, current, "RIGHT_PAREN")
        THEN /\ Parser_current' =
                  [Parser_current EXCEPT ![c] = Parser_advance(tokens, current)]
             /\ Return(c, Grouping(ret[c]))
        ELSE /\ Raise(c, ParseError("Expected ')' after expression", <<>>))
             /\ UNCHANGED Parser_current
  /\ UNCHANGED <<scanner_vars, Parser_tokens>>

\* Interpreter().evaluate(ast) and the return of interpret_search_query
Interpreter_evaluate(c) ==
  /\ pc[c] = "interpret"
  /\ result' = [result EXCEPT ![c] = evaluate(ast[c])]
  /\ pc' = [pc EXCEPT ![c] = "done"]
  /\ UNCHANGED <<scanner_vars, parser_vars>>

Next ==
  \E c \in Calls :
    \/ Scanner_init(c)
    \/ Scanner_scan_token(c)
    \/ Scanner_scan_tokens_return(c)
    \/ Parser_parse(c)
    \/ Parser_or_begin(c)
    \/ Parser_or_loop(c)
    \/ Parser_and_begin(c)
    \/ Parser_and_loop(c)
    \/ Parser_unary_begin(c)
    \/ Parser_unary_return(c)
    \/ Parser_primary(c)
    \/ Parser_primary_group(c)
    \/ Interpreter_evaluate(c)

\* ------------------------------------------------- the Predicate variants
\* the filter predicates of the specification, as the Q objects they name
FieldEquals(field, value) == Q(<<field>>, value)

FieldIsNotNull(field) == Q(<<field, "isnull">>, FALSE)

FieldCompare(field, op, datetime) ==
  IF op = "eq" THEN Q(<<field>>, datetime) ELSE Q(<<field, op>>, datetime)

FieldEqualsRelationUsername(relation, username) ==
  Q(<<relation, "username">>, username)

And(left, right) == Q_and(left, right)

Or(left, right) == Q_or(left, right)

Not(inner) == Q_not(inner)

\* ----------------------------------------------------------------- inputs
\* the words query texts are put together from
w_h1 == <<"h", "1">>
w_h2 == <<"h", "2">>
w_h3 == <<"h", "3">>
w_h4 == <<"h", "4">>
w_h5 == <<"h", "5">>
w_h6 == <<"h", "6">>
w_H1 == <<"H", "1">>
w_H3 == <<"H", "3">>
w_H6 == <<"H", "6">>
w_acq == <<"a", "c", "q">>
w_acq0 == <<"a", "c", "q", "0">>
w_asic0 == <<"a", "s", "i", "c", "0">>
w_asic1 == <<"a", "s", "i", "c", "1">>
w_bee == <<"b", "e", "e">>
w_liktrg == <<"l", "i", "k", "t", "r", "g">>
w_obs == <<"o", "b", "s">>
w_ACQ == <<"A", "C", "Q">>
w_Asic1 == <<"A", "s", "i", "c", "1">>
w_submitted == <<"s", "u", "b", "m", "i", "t", "t", "e", "d">>
w_uplinked == <<"u", "p", "l", "i", "n", "k", "e", "d">>
w_Submitted == <<"S", "u", "b", "m", "i", "t", "t", "e", "d">>
w_UPLINKED == <<"U", "P", "L", "I", "N", "K", "E", "D">>
w_by == <<"b", "y">>
w_and == <<"a", "n", "d">>
w_or == <<"o", "r">>
w_not == <<"n", "o", "t">>
w_eq == <<"=">>
w_ne == <<"!", "=">>
w_gt == <<">">>
w_ge == <<">", "=">>
w_lt == <<"<">>
w_le == <<"<", "=">>
w_lparen == <<"(">>
w_rparen == <<")">>
w_admin == <<"a", "d", "m", "i", "n">>
w_testuser == <<"t", "e", "s", "t", "u", "s", "e", "r">>
w_Bob == <<"B", "o", "b", "_", "1", ".", "x">>
d_date == <<"2", "0", "2", "3", "-", "0", "1", "-", "0", "1">>
d_minute == <<"2", "0", "2", "3", "-", "0", "6", "-", "3", "0", "T", "1", "0", ":", "3", "0">>
d_minuteZ == <<"2", "0", "2", "3", "-", "0", "6", "-", "3", "0", "T", "1", "0", ":", "3", "0", "Z">>
d_second == <<"2", "0", "2", "3", "-", "1", "2", "-", "3", "1", "T", "2", "3", ":", "5", "9", ":", "5", "9">>
d_secondZ == <<"2", "0", "2", "4", "-", "0", "2", "-", "2", "9", "T", "0", "0", ":", "0", "0", ":", "0", "7", "Z">>
d_leap == <<"2", "0", "2", "4", "-", "0", "2", "-", "2", "9">>
d_month13 == <<"2", "0", "2", "3", "-", "1", "3", "-", "0", "1">>
d_feb30 == <<"2", "0", "2", "3", "-", "0", "2", "-", "3", "0">>
d_notleap == <<"2", "0", "2", "3", "-", "0", "2", "-", "2", "9">>
d_hour24 == <<"2", "0", "2", "3", "-", "0", "1", "-", "0", "1", "T", "2", "4", ":", "0", "0">>
d_year0 == <<"0", "0", "0", "0", "-", "0", "1", "-", "0", "1">>
d_second60 == <<"2", "0", "2", "3", "-", "0", "1", "-", "0", "1", "T", "1", "0", ":", "3", "0", ":", "6", "0", "Z">>

w_AND == <<"A", "N", "D">>
w_Or == <<"O", "r">>
w_NOT == <<"N", "O", "T">>
w_By == <<"B", "y">>
w_Admin == <<"A", "d", "m", "i", "n">>
w_ADMIN == <<"A", "D", "M", "I", "N">>
w_baddate == <<"b", "a", "d", "d", "a", "t", "e">>
w_abc == <<"a", "b", "c">>
w_eof == <<"e", "o", "f">>
w_id == <<"i", "d">>
n_10 == <<"1", "0">>
n_42 == <<"4", "2">>
n_50 == <<"5", "0">>
n_75 == <<"7", "5">>
n_100 == <<"1", "0", "0">>
n_200 == <<"2", "0", "0">>

n_7 == <<"7">>
n_007 == <<"0", "0", "7">>
w_7up == <<"7", "u", "p">>
w_1a2b == <<"1", "a", "2", "b">>
w_u7 == <<"u", "7">>
w_x == <<"x">>
w_dot_x == <<".", "x">>
w_under == <<"_", "a", ".", "b", "_">>
w_bang == <<"!">>
w_at == <<"@">>
w_minus == <<"-">>
w_plus == <<"+">>
w_quote == <<"\"">>
w_hash_admin == <<"#", "a", "d", "m", "i", "n">>
w_a_minus_b == <<"a", "-", "b">>
w_at_and == <<"@", "a", "n", "d">>
d_short == <<"2", "0", "2", "3", "-", "0", "1", "-", "0">>
d_hour == <<"2", "0", "2", "3", "-", "0", "1", "-", "0", "1", "T", "1", "0">>
d_second_x ==
  <<"2", "0", "2", "3", "-", "1", "2", "-", "3", "1", "T", "2", "3", ":", "5",
    "9", ":", "5", "9", "x">>

ModelWords == {w_h1, w_h2, w_h3, w_h4, w_h5, w_h6, w_H1, w_H3, w_H6}

ConfigWords ==
  {w_acq, w_acq0, w_asic0, w_asic1, w_bee, w_liktrg, w_obs, w_ACQ, w_Asic1}

StatusWords == {w_submitted, w_uplinked, w_Submitted, w_UPLINKED}

ComparatorWords == {w_eq, w_ne, w_gt, w_ge, w_lt, w_le}

Usernames == {w_admin, w_testuser, w_Bob}

\* datetime literals of the five shapes that name a date and time of day
ValidDatetimes == {d_date, d_minute, d_minuteZ, d_second, d_secondZ, d_leap}

\* literals of the five shapes that name none
InvalidDatetimes ==
  {d_month13, d_feb30, d_notleap, d_hour24, d_year0, d_second60}

Datetimes == ValidDatetimes \cup InvalidDatetimes

\* the words of the exhaustive family
CoreVocab ==
  {w_h1, w_submitted, w_by, w_admin, w_and, w_or, w_not,
   w_lparen, w_rparen, w_gt, d_date}

FullVocab ==
  ModelWords \cup ConfigWords \cup StatusWords \cup ComparatorWords
    \cup Usernames \cup Datetimes \cup CoreVocab
    \cup {w_AND, w_Or, w_NOT, w_By, w_Admin, w_ADMIN, w_baddate, w_abc,
          w_eof, w_id, n_42}

\* the words separated by single blanks
RECURSIVE Spaced(_)
Spaced(ws) ==
  IF ws = <<>> THEN <<>>
  ELSE IF Len(ws) = 1 THEN ws[1]
  ELSE ws[1] \o <<" ">> \o Spaced(Tail(ws))

\* the words as an operator types them: no blank inside a parenthesis
RECURSIVE Typed(_)
Typed(ws) ==
  IF ws = <<>> THEN <<>>
  ELSE IF Len(ws) = 1 THEN ws[1]
  ELSE IF ws[1] = w_lparen \/ ws[2] = w_rparen THEN ws[1] \o Typed(Tail(ws))
  ELSE ws[1] \o <<" ">> \o Typed(Tail(ws))

\* every sequence of 1..n words of vocab
WordSeqs(vocab, n) == UNION {[1..k -> vocab] : k \in 1..n}

\* the datetime each valid literal names, blank fields being 0 and a literal
\* without Z being in the default time zone
Datetime(year, month, day, hour, minute, second, tzinfo) ==
  [year |-> year, month |-> month, day |-> day, hour |-> hour,
   minute |-> minute, second |-> second, tzinfo |-> tzinfo]

DatetimeNamed(d) ==
  CASE d = d_date -> Datetime(2023, 1, 1, 0, 0, 0, "default")
    [] d = d_minute -> Datetime(2023, 6, 30, 10, 30, 0, "default")
    [] d = d_minuteZ -> Datetime(2023, 6, 30, 10, 30, 0, "UTC")
    [] d = d_second -> Datetime(2023, 12, 31, 23, 59, 59, "default")
    [] d = d_secondZ -> Datetime(2024, 2, 29, 0, 0, 7, "UTC")
    [] d = d_leap -> Datetime(2024, 2, 29, 0, 0, 0, "default")

\* a query fragment and the predicate the specification gives it
Operand(words, pred) == [words |-> words, pred |-> pred]

H1 == FieldEquals("model", "H1")
H2 == FieldEquals("model", "H2")
H3 == FieldEquals("model", "H3")

\* single-word operands
Atoms ==
  {Operand(<<w_h1>>, H1),
   Operand(<<w_H3>>, H3),
   Operand(<<w_asic0>>, FieldIsNotNull(w_asic0)),
   Operand(<<w_uplinked>>, FieldEquals("uplinked", TRUE))}

\* fragments that parse as a Unary
Operands ==
  Atoms \cup
  {Operand(<<w_submitted>>, FieldEquals("submitted", TRUE)),
   Operand(<<w_submitted, w_by, w_admin>>,
           FieldEqualsRelationUsername("author", w_admin)),
   Operand(<<w_uplinked, w_ge, d_minuteZ>>,
           FieldCompare("uplink_time", "gte", DatetimeNamed(d_minuteZ))),
   Operand(<<w_not, w_h2>>, Not(H2)),
   Operand(<<w_lparen, w_h1, w_or, w_obs, w_rparen>>,
           Or(H1, FieldIsNotNull(w_obs))),
   Operand(<<w_not, w_lparen, w_submitted, w_rparen>>,
           Not(FieldEquals("submitted", TRUE)))}

\* a fragment that parses as a Unary and names no date
BadOperand == <<w_submitted, w_gt, d_feb30>>

OperandWords == {o.words : o \in Operands} \cup {BadOperand}

\* the query texts interpret_search_query is called with
StatusPhrases ==
  {Spaced(<<s, c, d>>) : s \in StatusWords, c \in ComparatorWords, d \in Datetimes}
    \cup {s \o c \o d : s \in {w_submitted}, c \in ComparatorWords, d \in {d_date, d_secondZ}}
    \cup {Spaced(<<s, w_by, u>>) : s \in StatusWords, u \in Usernames}

Connected ==
  {Typed(a \o w \o b) : a \in OperandWords, b \in OperandWords,
                        w \in {<<>>, <<w_and>>, <<w_or>>}}

Wrapped ==
  {Typed(<<w_not>> \o a) : a \in OperandWords}
    \cup {Typed(<<w_lparen>> \o a \o <<w_rparen>>) : a \in OperandWords}

Grouped ==
  {Typed(<<w_lparen>> \o a.words \o <<w_or>> \o b.words \o <<w_rparen, w_and>>
           \o c.words) : a \in Atoms, b \in Atoms, c \in Atoms}
    \cup
  {Typed(<<w_lparen>> \o a.words \o <<w_or>> \o b.words
           \o <<w_rparen, w_and, w_lparen>> \o c.words \o <<w_and, w_not>>
           \o d.words \o <<w_rparen>>) :
     a \in Atoms, b \in Atoms, c \in Atoms, d \in Atoms}

\* the atoms of the associativity queries
AssocAtoms ==
  {Operand(<<w_h1>>, H1), Operand(<<w_h2>>, H2),
   Operand(<<w_uplinked>>, FieldEquals("uplinked", TRUE))}

\* "a or (b and x)" and the same atoms without parentheses
ParenRight(a, b, x) ==
  Typed(a.words \o <<w_or, w_lparen>> \o b.words \o <<w_and>> \o x.words
          \o <<w_rparen>>)

Flat(a, b, x) == Spaced(a.words \o <<w_or>> \o b.words \o <<w_and>> \o x.words)

ParenLeft(a, b, x) ==
  Typed(<<w_lparen>> \o a.words \o <<w_or>> \o b.words \o <<w_rparen, w_and>>
          \o x.words)

\* what follows a comparator and is no datetime literal
NotDatetimeRests ==
  {<<>>, <<w_baddate>>, <<w_h1>>, <<w_eq, d_date>>, <<n_42>>, <<w_asic0>>,
   <<w_uplinked>>, <<w_by, w_admin>>, <<w_and, w_h1>>, <<w_or, d_date>>,
   <<w_not, w_h1>>, <<w_lparen, d_date, w_rparen>>, <<w_rparen>>}

DanglingComparator ==
  {Spaced(<<s, c>> \o rest) :
     s \in StatusWords, c \in ComparatorWords, rest \in NotDatetimeRests}

\* what follows `by` and is no generic literal
ReservedWords ==
  ModelWords \cup ConfigWords \cup StatusWords
    \cup {w_and, w_or, w_not, w_by, w_AND, w_Or, w_NOT, w_By}

NotLiteralRests ==
  {<<>>} \cup {<<w>> : w \in ReservedWords \cup ComparatorWords \cup Datetimes}
    \cup {<<w_lparen>>, <<w_rparen>>, <<w_lparen, w_admin, w_rparen>>,
          <<w_eq, w_admin>>, <<w_by, w_admin>>, <<n_42>>}

DanglingBy ==
  {Spaced(<<s, b>> \o rest) :
     s \in StatusWords, b \in {w_by, w_By}, rest \in NotLiteralRests}

\* an opening parenthesis whose expression no closing one follows
Unclosed ==
  {Typed(<<w_lparen>> \o a) : a \in OperandWords}
    \cup {Typed(<<w_lparen, w_lparen>> \o a \o <<w_rparen>>) : a \in OperandWords}
    \cup {Typed(<<w_lparen>> \o a \o <<w_or, w_lparen>> \o b \o rest) :
            a \in OperandWords, b \in OperandWords,
            rest \in {<<>>, <<w_rparen>>}}
    \cup {Typed(<<w_lparen, w_h1, w_or, w_lparen, w_h2>>),
          Typed(<<w_lparen, w_lparen, w_lparen, w_h1, w_rparen, w_rparen>>)}

\* where a Primary is expected, and the words that start none
PrimaryPrefixes ==
  {<<>>, <<w_h1, w_and>>, <<w_h1, w_or>>, <<w_not>>, <<w_lparen>>,
   <<w_h1, w_and, w_not>>, <<w_lparen, w_asic0, w_or>>}

NotPrimaryWords ==
  {w_and, w_or, w_by, w_admin, w_Bob, w_rparen, d_date, d_feb30, w_eof, w_id}
    \cup ComparatorWords

PrimarySuffixes == {<<>>, <<w_h1>>, <<w_rparen>>}

NotPrimary ==
  {Typed(p \o <<w>> \o x) :
     p \in PrimaryPrefixes, w \in NotPrimaryWords, x \in PrimarySuffixes}
    \cup {Typed(p) : p \in PrimaryPrefixes}
    \cup {Typed(p \o <<w_not, w_not, w_h1>>) : p \in PrimaryPrefixes}

Blank == {<<" ">>, <<" ", " ">>, <<"\t">>, <<" ", "\n", " ">>}

\* the queries on the primary key
IdComparisons ==
  {<<w_eq, n_42>>, <<w_gt, n_100>>, <<w_ge, n_200>>, <<w_lt, n_50>>,
   <<w_le, n_75>>, <<w_ne, n_10>>}

IdComplex ==
  <<w_id, w_gt, n_100, w_and, w_lparen, w_h1, w_or, w_uplinked, w_rparen>>

IdQueries ==
  {Spaced(<<w_id>> \o q) : q \in IdComparisons}
    \cup {Typed(IdComplex), Spaced(<<w_id, w_gt>>), Spaced(<<w_id, w_eq, w_abc>>)}

\* str.upper and str.capitalize
upper_char(ch) ==
  IF \E i \in DOMAIN LowerAlpha : LowerAlpha[i] = ch
  THEN UpperAlpha[CHOOSE i \in DOMAIN LowerAlpha : LowerAlpha[i] = ch]
  ELSE ch

upper(s) == [i \in DOMAIN s |-> upper_char(s[i])]

capitalize(s) == [i \in DOMAIN s |-> IF i = 1 THEN upper_char(s[i]) ELSE s[i]]

CaseStyles == {"lower", "upper", "capitalize"}

CaseUsernames == {w_admin, w_Admin, w_ADMIN, w_Bob}

\* the words of a query with every word but the usernames in the style
Cased(style, ws) ==
  [i \in DOMAIN ws |->
     IF ws[i] \in CaseUsernames THEN ws[i]
     ELSE IF style = "upper" THEN upper(ws[i])
     ELSE IF style = "capitalize" THEN capitalize(ws[i])
     ELSE ws[i]]

\* queries in lower case, with the predicate the specification gives them
CaseQueries ==
  {Operand(<<w_h1>>, H1), Operand(<<w_h2>>, H2), Operand(<<w_h3>>, H3),
   Operand(<<w_acq>>, FieldIsNotNull(w_acq)),
   Operand(<<w_asic1>>, FieldIsNotNull(w_asic1)),
   Operand(<<w_liktrg>>, FieldIsNotNull(w_liktrg)),
   Operand(<<w_submitted>>, FieldEquals("submitted", TRUE)),
   Operand(<<w_uplinked>>, FieldEquals("uplinked", TRUE)),
   Operand(<<w_h1, w_and, w_uplinked>>, And(H1, FieldEquals("uplinked", TRUE))),
   Operand(<<w_h1, w_or, w_bee>>, Or(H1, FieldIsNotNull(w_bee))),
   Operand(<<w_not, w_obs>>, Not(FieldIsNotNull(w_obs)))}
    \cup
  {Operand(<<w_submitted, w_by, u>>, FieldEqualsRelationUsername("author", u)) :
     u \in CaseUsernames}
    \cup
  {Operand(<<w_not, w_uplinked, w_by, u, w_or, w_h2>>,
           Or(Not(FieldEqualsRelationUsername("uplinked_by", u)), H2)) :
     u \in CaseUsernames}

CaseVariants ==
  {Spaced(Cased(style, q.words)) : style \in CaseStyles, q \in CaseQueries}

\* "A or B and C", "A or B C", "A and B or C", "A B or C", "not A and B",
\* "not A B" and "not A or B"
Precedence ==
  {Spaced(a.words \o <<w_or>> \o b.words \o w \o x.words) :
     a \in Atoms, b \in Atoms, x \in Atoms, w \in {<<>>, <<w_and>>}}
    \cup {Spaced(a.words \o w \o b.words \o <<w_or>> \o x.words) :
            a \in Atoms, b \in Atoms, x \in Atoms, w \in {<<>>, <<w_and>>}}
    \cup {Spaced(<<w_not>> \o a.words \o w \o b.words) :
            a \in Atoms, b \in Atoms, w \in {<<>>, <<w_and>>, <<w_or>>}}

\* `not` before `not`, and before a parenthesised `not`
NotWords == {w_not, w_NOT, w_bang}

DoubleNot ==
  {Typed(<<n, m>> \o a.words) : n \in NotWords, m \in NotWords, a \in Atoms}
    \cup {Typed(<<n, w_lparen, m>> \o a.words \o <<w_rparen>>) :
            n \in NotWords, m \in NotWords, a \in Atoms}
    \cup {Typed(<<w_h1, w_and, w_not, w_not, w_h2>>),
          Typed(<<w_lparen, w_not, w_not, w_h1, w_rparen>>)}

\* digits that start no datetime literal
NoDatetimeWords == {n_7, n_42, n_007, d_short, w_7up}

StrayDigits ==
  NoDatetimeWords
    \cup {Spaced(<<a, n>>) : a \in {w_h1, w_submitted}, n \in NoDatetimeWords}
    \cup {Spaced(<<n, a>>) : a \in {w_h1, d_date}, n \in NoDatetimeWords}
    \cup {Spaced(<<n, m>>) : n \in NoDatetimeWords, m \in NoDatetimeWords}
    \cup {Spaced(<<w_h1, n_7, w_and, n_42, w_h2>>)}

\* datetime literals followed by more text
LongerDatetimes ==
  {d \o x : d \in ValidDatetimes, x \in {<<"Z">>, <<"x">>, <<":", "0", "0">>, <<"T">>}}
    \cup {d_hour, d_second_x}
    \cup {Spaced(<<w_submitted, w_gt, d_hour>>),
          Spaced(<<w_submitted, w_gt, d_second_x>>)}

\* characters outside the operator, whitespace and digit rules
OtherWords ==
  {w_at, w_minus, w_plus, w_quote, w_hash_admin, w_a_minus_b, w_at_and}

Unruly ==
  OtherWords \cup {w_bang, w_bang \o w_h1, w_bang \o w_bang}
    \cup {Spaced(<<w_h1, o>>) : o \in OtherWords \cup {w_bang}}
    \cup {Spaced(<<o, w_h1>>) : o \in OtherWords \cup {w_bang}}
    \cup {w_h1 \o o \o w_h2 : o \in OtherWords \cup {w_bang}}
    \cup {Spaced(<<w_submitted, w_by, o>>) : o \in OtherWords}

\* usernames of alphanumeric characters, "_" and "."
TypedUsernames ==
  {w_admin, w_Bob, w_x, w_u7, w_dot_x, w_under, w_7up, w_1a2b, n_007, n_7}

Attributed == {Spaced(<<w_submitted, w_by, u>>) : u \in TypedUsernames}

Inputs ==
  {<<>>}
    \cup Precedence
    \cup DoubleNot
    \cup StrayDigits
    \cup LongerDatetimes
    \cup Unruly
    \cup Attributed
    \cup DanglingComparator
    \cup DanglingBy
    \cup Unclosed
    \cup NotPrimary
    \cup Blank
    \cup IdQueries
    \cup CaseVariants
    \cup {Spaced(ws) : ws \in WordSeqs(CoreVocab, MaxWords)}
    \cup FullVocab
    \cup StatusPhrases
    \cup Connected
    \cup Wrapped
    \cup Grouped

\* ---------------------------------------------------------- specification
\* the calls 1..Len(plan) have been made, call c with the text plan[c]; the
\* other calls have not been made
InitCalls(plan) ==
  /\ query = [c \in Calls |-> IF c \in DOMAIN plan THEN plan[c] ELSE <<>>]
  /\ pc = [c \in Calls |-> IF c \in DOMAIN plan THEN "called" ELSE "idle"]
  /\ Scanner_text = [c \in Calls |-> <<>>]
  /\ Scanner_token_list = [c \in Calls |-> <<>>]
  /\ Scanner_start = [c \in Calls |-> 0]
  /\ Scanner_current = [c \in Calls |-> 0]
  /\ Parser_tokens = [c \in Calls |-> <<>>]
  /\ Parser_current = [c \in Calls |-> 0]
  /\ stack = [c \in Calls |-> <<>>]
  /\ ret = [c \in Calls |-> NoExpr]
  /\ ast = [c \in Calls |-> NoExpr]
  /\ result = [c \in Calls |-> Pending]

\* call 1 has been made with one of the inputs
Init == \E text \in Inputs : InitCalls(<<text>>)

Spec == Init /\ [][Next]_vars

\* the inputs on which the return of the call is followed: every kind of
\* token, both loops, `not`, a group, and every way of raising
TerminationInputs ==
  IdQueries \cup Blank
    \cup {<<>>,
          Spaced(<<w_h1, n_7, w_and, n_42, w_h2>>),
          Spaced(<<w_h1, w_h2, w_h3>>),
          Spaced(<<w_h1, w_or, w_h2, w_or, w_h3>>),
          Spaced(<<w_h1, w_or, w_h2, w_and, w_h3>>),
          Spaced(<<w_not, w_not, w_acq>>),
          Spaced(<<w_bang, w_h1>>),
          Typed(<<w_not, w_lparen, w_h1, w_or, w_lparen, w_h2, w_rparen,
                  w_rparen>>),
          Typed(<<w_lparen, w_h1, w_and, w_h2>>),
          Typed(<<w_lparen, w_rparen>>),
          Spaced(<<w_h1, w_rparen>>),
          Spaced(<<w_h1, w_or>>),
          Spaced(<<w_h1, w_and>>),
          Spaced(<<w_not>>),
          Spaced(<<w_submitted, w_ge, d_date>>),
          Spaced(<<w_uplinked, w_ne, d_secondZ>>),
          Spaced(<<w_submitted, w_lt, d_month13>>),
          Spaced(<<w_submitted, w_eq, d_second_x>>),
          Spaced(<<w_submitted, w_gt, d_short>>),
          Spaced(<<w_uplinked, w_le>>),
          Spaced(<<w_submitted, w_by, w_admin>>),
          Spaced(<<w_uplinked, w_by, w_7up>>),
          Spaced(<<w_submitted, w_by>>),
          Spaced(<<w_submitted>>),
          Spaced(<<w_by, w_admin>>),
          Spaced(<<w_at_and, w_h1>>),
          Spaced(<<w_a_minus_b>>),
          Spaced(<<n_007>>),
          Spaced(<<d_hour>>),
          Spaced(<<w_ACQ, w_AND, w_Asic1>>)}

\* call 1 has been made with one of these inputs
FairInit == \E text \in TerminationInputs : InitCalls(<<text>>)

\* the call is synchronous: a step that can be taken is taken
FairSpec == FairInit /\ [][Next]_vars /\ WF_vars(Next)

\* the texts of the calls made side by side
PairTexts ==
  {ParenRight(Operand(<<w_h1>>, H1), Operand(<<w_h2>>, H2),
              Operand(<<w_uplinked>>, FieldEquals("uplinked", TRUE))),
   Flat(Operand(<<w_h1>>, H1), Operand(<<w_h2>>, H2),
        Operand(<<w_uplinked>>, FieldEquals("uplinked", TRUE))),
   ParenLeft(Operand(<<w_h1>>, H1), Operand(<<w_h2>>, H2),
             Operand(<<w_uplinked>>, FieldEquals("uplinked", TRUE))),
   Spaced(<<w_not, w_submitted, w_by, w_Bob>>),
   Spaced(<<w_uplinked, w_lt, d_month13>>)}

ShortTexts == {w_h1, Spaced(<<w_not, w_h1>>), Typed(<<w_lparen, w_h1>>), <<>>}

CallPlans ==
  {<<t>> : t \in PairTexts \cup ShortTexts}
    \cup {<<t, u>> : t \in PairTexts, u \in PairTexts}
    \cup {<<ParenRight(a, b, x), Flat(a, b, x)>> :
            a \in AssocAtoms, b \in AssocAtoms, x \in AssocAtoms}
    \cup {<<t, u, v>> : t \in ShortTexts, u \in ShortTexts, v \in ShortTexts}

\* one call has been made alone, or two or three have been made and run in
\* any order and at any pace
InitCalls2 == \E plan \in CallPlans : InitCalls(plan)

SpecCalls == InitCalls2 /\ [][Next]_vars

\* ---------------------------------------------------------- type checking
TypeOK ==
  \A c \in Calls :
    /\ pc[c] \in {"idle", "called", "scan", "parse", "parsing", "interpret",
                  "done"}
    /\ Scanner_current[c] \in 0..(Len(Scanner_text[c]) + 20)
    /\ result[c].status \in
         {"pending", "ok", "ParseError", "InterpreterError", "ValueError"}

\* ----------------------------------------------------------------- claims
Done(c) == pc[c] = "done"

Text(c) == query[c]

\* C1: interpret_search_query returns a predicate or raises ParseError or
\* InterpreterError; no other exception leaves it.
C1_OnlyParseOrInterpreterErrors ==
  \A c \in Calls :
    Done(c) => result[c].status \in {"ok", "ParseError", "InterpreterError"}

\* C2: "A and B" and "A B" both return And(pred(A), pred(B)) for operands A
\* and B that parse as a Unary (the same exception when an operand names no
\* date), and Parser._and goes on to another operand exactly when the next
\* token is not `or`, `)` or EOF.
C2_SameResult ==
  \A c \in Calls :
    Done(c) =>
      /\ \A a \in Operands, b \in Operands :
           Text(c) \in {Typed(a.words \o <<w_and>> \o b.words),
                        Typed(a.words \o b.words)}
             => result[c] = Ok(And(a.pred, b.pred))
      /\ \A a \in Operands :
           Text(c) \in {Typed(a.words \o <<w_and>> \o BadOperand),
                        Typed(a.words \o BadOperand),
                        Typed(BadOperand \o <<w_and>> \o a.words),
                        Typed(BadOperand \o a.words)}
             => result[c] = ValueError

C2_ChainStep ==
  \A c \in Calls :
    (/\ pc[c] = "parsing"
     /\ Top(c).fn = "_and"
     /\ Top(c).at \in {"first", "right"}
     /\ stack'[c] # stack[c])
      => (Len(stack'[c]) > Len(stack[c])
            <=> Parser_peek(Parser_tokens[c], Parser_current[c]).ttype
                  \notin {"OR", "RIGHT_PAREN", "EOF"})

C2_ImplicitAndIsExplicitAnd == []C2_SameResult /\ [][C2_ChainStep]_vars

C2_Witness ==
  \E c \in Calls, a \in Operands, b \in Operands :
    /\ Done(c)
    /\ Text(c) = Typed(a.words \o b.words)
    /\ result[c] = Ok(And(a.pred, b.pred))
    /\ Len(a.words) > 1

\* C3: whenever Parser.parse returns a tree, the next unconsumed token is
\* EOF (a query with an unmatched `)` is not accepted).
C3_AcceptedQueryIsWholeInput ==
  \A c \in Calls :
    pc[c] = "interpret" =>
      Parser_peek(Parser_tokens[c], Parser_current[c]).ttype = "EOF"

\* C4: a single model atom h1..h6, in any letter case, returns
\* FieldEquals(model, code) with the atom's own code H1..H6.
ModelCode(w) ==
  CASE w \in {w_h1, w_H1} -> "H1"
    [] w = w_h2 -> "H2"
    [] w \in {w_h3, w_H3} -> "H3"
    [] w = w_h4 -> "H4"
    [] w = w_h5 -> "H5"
    [] w \in {w_h6, w_H6} -> "H6"

C4_ModelAtom ==
  \A c \in Calls :
    (Done(c) /\ Text(c) \in ModelWords)
      => result[c] = Ok(FieldEquals("model", ModelCode(Text(c))))

C4_Witness ==
  \E c \in Calls :
    /\ Done(c)
    /\ Text(c) = w_h4
    /\ result[c] = Ok(FieldEquals("model", "H4"))

\* C5: a single config-type atom returns FieldIsNotNull(f), f being the
\* record field of the atom's name.
ConfigFieldNamed(w) ==
  CASE w \in {w_acq, w_ACQ} -> <<"a", "c", "q">>
    [] w = w_acq0 -> <<"a", "c", "q", "0">>
    [] w = w_asic0 -> <<"a", "s", "i", "c", "0">>
    [] w \in {w_asic1, w_Asic1} -> <<"a", "s", "i", "c", "1">>
    [] w = w_bee -> <<"b", "e", "e">>
    [] w = w_liktrg -> <<"l", "i", "k", "t", "r", "g">>
    [] w = w_obs -> <<"o", "b", "s">>

C5_ConfigAtom ==
  \A c \in Calls :
    (Done(c) /\ Text(c) \in ConfigWords)
      => result[c] = Ok(FieldIsNotNull(ConfigFieldNamed(Text(c))))

C5_Witness ==
  \E c \in Calls :
    /\ Done(c)
    /\ Text(c) = w_Asic1
    /\ result[c] = Ok(FieldIsNotNull(w_asic1))

\* C6: a status word followed by neither a comparator nor `by` returns the
\* flag test FieldEquals(submitted, true), or FieldEquals(uplinked, true).
FlagNamed(s) ==
  IF s \in {w_submitted, w_Submitted} THEN "submitted" ELSE "uplinked"

C6_StatusFlag ==
  \A c \in Calls :
    Done(c) =>
      \A s \in StatusWords :
        /\ Text(c) \in {s, Typed(<<w_lparen, s, w_rparen>>)}
             => result[c] = Ok(FieldEquals(FlagNamed(s), TRUE))
        /\ Text(c) = Spaced(<<s, w_h1>>)
             => result[c] = Ok(And(FieldEquals(FlagNamed(s), TRUE), H1))

C6_Witness ==
  \E c \in Calls :
    /\ Done(c)
    /\ Text(c) = w_submitted
    /\ result[c] = Ok(FieldEquals("submitted", TRUE))

\* C7: "submitted by U" returns FieldEqualsRelationUsername(author, U) and
\* "uplinked by U" returns FieldEqualsRelationUsername(uplinked_by, U).
RelationNamed(s) ==
  IF s \in {w_submitted, w_Submitted} THEN "author" ELSE "uplinked_by"

C7_Attribution ==
  \A c \in Calls :
    Done(c) =>
      \A s \in StatusWords, u \in Usernames :
        Text(c) = Spaced(<<s, w_by, u>>)
          => result[c] = Ok(FieldEqualsRelationUsername(RelationNamed(s), u))

C7_Witness ==
  \E c \in Calls :
    /\ Done(c)
    /\ Text(c) = Spaced(<<w_uplinked, w_by, w_testuser>>)
    /\ result[c] = Ok(FieldEqualsRelationUsername("uplinked_by", w_testuser))

\* C8 as stated: "s c d" returns the atomic FieldCompare(field(s), op(c), d)
\* for every comparator, `!=` giving the operation ne.
TimeFieldNamed(s) ==
  IF s \in {w_submitted, w_Submitted} THEN "submit_time" ELSE "uplink_time"

OpNamed(w) ==
  CASE w = w_gt -> "gt"
    [] w = w_ge -> "gte"
    [] w = w_lt -> "lt"
    [] w = w_le -> "lte"
    [] w = w_eq -> "eq"
    [] w = w_ne -> "ne"

StartsWithNot(a) == a.words[1] = w_not

C9_StructurePreserved ==
  \A c \in Calls :
    Done(c) =>
      /\ \A a \in Operands, b \in Operands :
           /\ Text(c) = Typed(a.words \o <<w_or>> \o b.words)
                => result[c] = Ok(Or(a.pred, b.pred))
           /\ Text(c) = Typed(a.words \o <<w_and>> \o b.words)
                => result[c] = Ok(And(a.pred, b.pred))
      /\ \A a \in Operands :
           /\ (Text(c) = Typed(<<w_not>> \o a.words) /\ ~StartsWithNot(a))
                => result[c] = Ok(Not(a.pred))
           /\ Text(c) = Typed(<<w_lparen>> \o a.words \o <<w_rparen>>)
                => result[c] = Ok(a.pred)

C9_Witness ==
  \E c \in Calls, a \in Operands, b \in Operands :
    /\ Done(c)
    /\ a # b
    /\ Text(c) = Typed(a.words \o <<w_or>> \o b.words)
    /\ result[c] = Ok(Or(a.pred, b.pred))

\* C10: parentheses override precedence: "(A or B) and C" returns
\* And(Or(A, B), C) and "(A or B) and (C and not D)" returns
\* And(Or(A, B), And(C, Not(D))).
C10_ParenthesesOverridePrecedence ==
  \A c \in Calls :
    Done(c) =>
      \A a \in Atoms, b \in Atoms, x \in Atoms :
        /\ Text(c) = Typed(<<w_lparen>> \o a.words \o <<w_or>> \o b.words
                             \o <<w_rparen, w_and>> \o x.words)
             => result[c] = Ok(And(Or(a.pred, b.pred), x.pred))
        /\ \A d \in Atoms :
             Text(c) = Typed(<<w_lparen>> \o a.words \o <<w_or>> \o b.words
                               \o <<w_rparen, w_and, w_lparen>> \o x.words
                               \o <<w_and, w_not>> \o d.words \o <<w_rparen>>)
               => result[c] = Ok(And(Or(a.pred, b.pred), And(x.pred, Not(d.pred))))

C10_Witness ==
  \E c \in Calls, a \in Atoms, b \in Atoms, x \in Atoms, d \in Atoms :
    /\ Done(c)
    /\ Cardinality({a, b, x, d}) = 4
    /\ Text(c) = Typed(<<w_lparen>> \o a.words \o <<w_or>> \o b.words
                         \o <<w_rparen, w_and, w_lparen>> \o x.words
                         \o <<w_and, w_not>> \o d.words \o <<w_rparen>>)
    /\ result[c] = Ok(And(Or(a.pred, b.pred), And(x.pred, Not(d.pred))))

\* C11 as stated: the predicate returned for "a or (b and x)" differs from the
\* one returned for the same atoms without parentheses
C11_ParenthesesChangeOrThenAnd ==
  \A c \in Calls, d \in Calls :
    (Done(c) /\ Done(d)) =>
      \A a \in AssocAtoms, b \in AssocAtoms, x \in AssocAtoms :
        (Text(c) = ParenRight(a, b, x) /\ Text(d) = Flat(a, b, x))
          => result[c] # result[d]

\* C11 amended: "a or (b and x)" and "a or b and x" both return
\* Or(a, And(b, x)), the parentheses being redundant since `and` binds tighter;
\* "(a or b) and x" returns And(Or(a, b), x), which differs from both
C11_ParenthesesAroundAndAreRedundant ==
  \A c \in Calls :
    Done(c) =>
      \A a \in AssocAtoms, b \in AssocAtoms, x \in AssocAtoms :
        /\ Text(c) \in {ParenRight(a, b, x), Flat(a, b, x)}
             => result[c] = Ok(Or(a.pred, And(b.pred, x.pred)))
        /\ Text(c) = ParenLeft(a, b, x)
             => /\ result[c] = Ok(And(Or(a.pred, b.pred), x.pred))
                /\ result[c] # Ok(Or(a.pred, And(b.pred, x.pred)))

C11_Witness ==
  \E c \in Calls, d \in Calls, a \in AssocAtoms, b \in AssocAtoms, x \in AssocAtoms :
    /\ Done(c) /\ Done(d)
    /\ Cardinality({a, b, x}) = 3
    /\ Text(c) = ParenRight(a, b, x)
    /\ Text(d) = Flat(a, b, x)
    /\ result[c] = Ok(Or(a.pred, And(b.pred, x.pred)))
    /\ result[d] = result[c]

\* the call is about to run Parser._primary
AtPrimary(c) ==
  /\ pc[c] = "parsing"
  /\ Top(c).fn = "_primary"
  /\ Top(c).at = "begin"

\* the token k places after the one the parser of the call is at; the list
\* ends with EOF
TokenAhead(c, k) ==
  IF Parser_current[c] + k < Len(Parser_tokens[c])
  THEN At(Parser_tokens[c], Parser_current[c] + k)
  ELSE Token("EOF", <<>>)

\* the call takes the step
Steps(c) == stack'[c] # stack[c]

\* C12: every query "status comparator rest" whose rest does not begin with a
\* datetime literal raises the ParseError that names the status word and the
\* comparator
C12_DanglingComparatorQueries ==
  \A c \in Calls :
    Done(c) =>
      \A s \in StatusWords, w \in ComparatorWords, rest \in NotDatetimeRests :
        Text(c) = Spaced(<<s, w>> \o rest)
          => result[c] = ParseError("A valid datetime is expected after", <<s, w>>)

\* C12: whenever Parser._primary is at a status word followed by a comparator
\* and the token after it is no DATETIME, its step raises ParseError
C12_PrimaryStep ==
  \A c \in Calls :
    (/\ AtPrimary(c)
     /\ TokenAhead(c, 0).ttype \in {"SUBMITTED", "UPLINKED"}
     /\ TokenAhead(c, 1).ttype \in
          {"GREATER", "GREATER_EQUAL", "LESSER", "LESSER_EQUAL", "EQUAL",
           "BANG_EQUAL"}
     /\ TokenAhead(c, 2).ttype # "DATETIME"
     /\ Steps(c))
      => /\ pc'[c] = "done"
         /\ result'[c].status = "ParseError"

\* C12: a status word followed by a comparator that no DATETIME token follows
\* raises ParseError
C12_ComparatorWithoutDatetime ==
  []C12_DanglingComparatorQueries /\ [][C12_PrimaryStep]_vars

C12_Witness ==
  \E c \in Calls :
    /\ Done(c)
    /\ Text(c) = Spaced(<<w_submitted, w_gt, w_baddate>>)
    /\ Parser_tokens[c][3].ttype = "LITERAL"
    /\ result[c] = ParseError("A valid datetime is expected after",
                              <<w_submitted, w_gt>>)

\* C13: every text of Unclosed raises the ParseError of the missing ")"
C13_UnclosedQueries ==
  \A c \in Calls :
    (Done(c) /\ Text(c) \in Unclosed)
      => result[c] = ParseError("Expected ')' after expression", <<>>)

\* C13: whenever the expression after a "(" has been parsed, at any depth,
\* and the next token is no ")", the step of Parser._primary raises ParseError
C13_GroupStep ==
  \A c \in Calls :
    (/\ pc[c] = "parsing"
     /\ Top(c).fn = "_primary"
     /\ Top(c).at = "group"
     /\ TokenAhead(c, 0).ttype # "RIGHT_PAREN"
     /\ Steps(c))
      => /\ pc'[c] = "done"
         /\ result'[c] = ParseError("Expected ')' after expression", <<>>)

\* C13: an opening "(" whose enclosed expression no ")" follows raises
\* ParseError, at every nesting depth
C13_UnclosedParenthesis == []C13_UnclosedQueries /\ [][C13_GroupStep]_vars

C13_Witness ==
  \E c \in Calls :
    /\ Done(c)
    /\ Text(c) = Typed(<<w_lparen, w_h1, w_or, w_lparen, w_h2>>)
    /\ result[c] = ParseError("Expected ')' after expression", <<>>)

\* C14: every query "status by rest" whose rest does not begin with a generic
\* literal raises the ParseError that names the status word and `by`
C14_DanglingByQueries ==
  \A c \in Calls :
    Done(c) =>
      \A s \in StatusWords, b \in {w_by, w_By}, rest \in NotLiteralRests :
        Text(c) = Spaced(<<s, b>> \o rest)
          => result[c] = ParseError("An username is expected after", <<s, b>>)

\* C14: whenever Parser._primary is at a status word followed by `by` and the
\* token after it is no LITERAL, its step raises ParseError
C14_PrimaryStep ==
  \A c \in Calls :
    (/\ AtPrimary(c)
     /\ TokenAhead(c, 0).ttype \in {"SUBMITTED", "UPLINKED"}
     /\ TokenAhead(c, 1).ttype = "BY"
     /\ TokenAhead(c, 2).ttype # "LITERAL"
     /\ Steps(c))
      => /\ pc'[c] = "done"
         /\ result'[c].status = "ParseError"

\* C14: a status word followed by `by` that no generic LITERAL token follows
\* raises ParseError
C14_ByWithoutUsername == []C14_DanglingByQueries /\ [][C14_PrimaryStep]_vars

C14_Witness ==
  \E c \in Calls :
    /\ Done(c)
    /\ Text(c) = Spaced(<<w_uplinked, w_by, w_asic0>>)
    /\ Parser_tokens[c][3].ttype = "CONFG_ASIC0"
    /\ result[c] = ParseError("An username is expected after",
                              <<w_uplinked, w_by>>)

\* the token types a Primary starts with
PrimaryStarts ==
  {"MODEL_H1", "MODEL_H2", "MODEL_H3", "MODEL_H4", "MODEL_H5", "MODEL_H6",
   "CONFG_ACQ", "CONFG_ACQ0", "CONFG_ASIC0", "CONFG_ASIC1", "CONFG_BEE",
   "CONFG_LIKTRG", "CONFG_OBS", "SUBMITTED", "UPLINKED", "LEFT_PAREN"}

\* C15: every text that has a word starting no Primary where one is expected
\* raises the ParseError naming that word; a text that ends there, or is
\* blank, raises the one naming the empty lexeme of EOF
C15_NotPrimaryQueries ==
  \A c \in Calls :
    Done(c) =>
      /\ \A p \in PrimaryPrefixes :
           /\ \A w \in NotPrimaryWords, x \in PrimarySuffixes :
                Text(c) = Typed(p \o <<w>> \o x)
                  => result[c] = ParseError("An expression cannot start with", <<w>>)
           /\ Text(c) = Typed(p)
                => result[c] = ParseError("An expression cannot start with", <<<<>>>>)
           /\ Text(c) = Typed(p \o <<w_not, w_not, w_h1>>)
                => result[c] = ParseError("An expression cannot start with", <<w_not>>)
      /\ Text(c) \in Blank
           => result[c] = ParseError("An expression cannot start with", <<<<>>>>)

\* C15: whenever Parser._primary is at a token that starts no Primary, its
\* step raises the ParseError naming the lexeme of that token
C15_PrimaryStep ==
  \A c \in Calls :
    (/\ AtPrimary(c)
     /\ TokenAhead(c, 0).ttype \notin PrimaryStarts
     /\ Steps(c))
      => /\ pc'[c] = "done"
         /\ result'[c] = ParseError("An expression cannot start with",
                                    <<TokenAhead(c, 0).lexeme>>)

\* C15: a token that cannot start a Primary, where one is expected, raises
\* the ParseError that names its lexeme
C15_NotPrimaryNamesLexeme == []C15_NotPrimaryQueries /\ [][C15_PrimaryStep]_vars

C15_Witness ==
  \E c \in Calls :
    /\ Done(c)
    /\ Text(c) = Typed(<<w_h1, w_and, w_not, w_Bob, w_rparen>>)
    /\ result[c] = ParseError("An expression cannot start with", <<w_Bob>>)

\* C16: calls made with the same text, in any order and with other calls at
\* any point between their steps, end with the same predicate or the same
\* error, and no step of a call changes what another call holds
C16_SameResult ==
  \A c \in Calls, d \in Calls :
    (Done(c) /\ Done(d) /\ Text(c) = Text(d)) => result[c] = result[d]

C16_StepIsLocal ==
  \A c \in Calls :
    Steps(c) =>
      \A d \in Calls \ {c} :
        /\ Scanner_token_list'[d] = Scanner_token_list[d]
        /\ Parser_tokens'[d] = Parser_tokens[d]
        /\ Parser_current'[d] = Parser_current[d]
        /\ stack'[d] = stack[d]
        /\ ast'[d] = ast[d]
        /\ result'[d] = result[d]

C16_Idempotent == []C16_SameResult /\ [][C16_StepIsLocal]_vars

C16_Witness ==
  /\ \A c \in Calls : Done(c)
  /\ Text(1) = Spaced(<<w_not, w_h1>>)
  /\ Text(2) = Typed(<<w_lparen, w_h1>>)
  /\ Text(3) = Text(1)
  /\ result[1] = Ok(Not(H1))
  /\ result[3] = result[1]
  /\ result[2].status = "ParseError"

\* the primary-key predicates
PkCompare(op, n) == IF op = "eq" THEN Q(<<"pk">>, n) ELSE Q(<<"pk", op>>, n)

\* C17 as stated: "id = N", "id > N", "id >= N", "id < N", "id <= N" and
\* "id != N" return the primary-key predicates eq, gt, gte, lt, lte and
\* Not(eq) on N, and "id > 100 and (h1 or uplinked)" returns
\* And(pk > 100, Or(H1, uplinked))
C17_NumericIdQueries ==
  \A c \in Calls :
    Done(c) =>
      /\ Text(c) = Spaced(<<w_id, w_eq, n_42>>) => result[c] = Ok(PkCompare("eq", 42))
      /\ Text(c) = Spaced(<<w_id, w_gt, n_100>>) => result[c] = Ok(PkCompare("gt", 100))
      /\ Text(c) = Spaced(<<w_id, w_ge, n_200>>) => result[c] = Ok(PkCompare("gte", 200))
      /\ Text(c) = Spaced(<<w_id, w_lt, n_50>>) => result[c] = Ok(PkCompare("lt", 50))
      /\ Text(c) = Spaced(<<w_id, w_le, n_75>>) => result[c] = Ok(PkCompare("lte", 75))
      /\ Text(c) = Spaced(<<w_id, w_ne, n_10>>) => result[c] = Ok(Not(PkCompare("eq", 10)))
      /\ Text(c) = Typed(IdComplex)
           => result[c] = Ok(And(PkCompare("gt", 100),
                                 Or(H1, FieldEquals("uplinked", TRUE))))

\* C18: while a text is scanned the token list holds no EOF token, and the
\* list scan_tokens returns holds exactly one, as its last element
C18_ExactlyOneEofLast ==
  \A c \in Calls :
    /\ pc[c] = "scan"
         => \A i \in DOMAIN Scanner_token_list[c] :
              Scanner_token_list[c][i].ttype # "EOF"
    /\ pc[c] \in {"parse", "parsing", "interpret", "done"}
         => LET tokens == Parser_tokens[c]
            IN /\ Len(tokens) >= 1
               /\ tokens[Len(tokens)].ttype = "EOF"
               /\ \A i \in 1..(Len(tokens) - 1) : tokens[i].ttype # "EOF"
               /\ Scanner_token_list[c] = tokens

C18_Witness ==
  \E c \in Calls :
    /\ pc[c] = "parse"
    /\ Text(c) = Spaced(<<w_h1, w_and, w_eof>>)
    /\ Len(Parser_tokens[c]) = 4
    /\ Parser_tokens[c][3] = Token("LITERAL", w_eof)
    /\ Parser_tokens[c][4] = Token("EOF", <<>>)

\* C19: a query whose reserved words are typed in lower case, in upper case
\* or capitalized returns the predicate of the lower-case query, and a
\* username is in the predicate as it was typed
C19_KeywordsCaseInsensitive ==
  \A c \in Calls :
    Done(c) =>
      \A style \in CaseStyles, q \in CaseQueries :
        Text(c) = Spaced(Cased(style, q.words)) => result[c] = Ok(q.pred)

C19_Witness ==
  \E c \in Calls :
    /\ Done(c)
    /\ Text(c) = Spaced(<<w_NOT, upper(w_uplinked), upper(w_by), w_Admin,
                          upper(w_or), upper(w_h2)>>)
    /\ result[c] = Ok(Or(Not(FieldEqualsRelationUsername("uplinked_by", w_Admin)), H2))
    /\ result[c] # Ok(Or(Not(FieldEqualsRelationUsername("uplinked_by", w_admin)), H2))

\* the combinations Interpreter has a mapping for
RECURSIVE Mapped(_)
Mapped(expr) ==
  CASE expr.node = "Binary" ->
         /\ expr.operator.ttype \in {"AND", "OR"}
         /\ Mapped(expr.left)
         /\ Mapped(expr.right)
    [] expr.node = "Unary" -> expr.operator.ttype = "NOT" /\ Mapped(expr.right)
    [] expr.node = "Grouping" -> Mapped(expr.expression)
    [] expr.node = "Query" ->
         \/ /\ expr.key.ttype = "MODEL"
            /\ expr.operator.ttype = "EQUAL"
            /\ expr.value.ttype \in
                 {"MODEL_H1", "MODEL_H2", "MODEL_H3", "MODEL_H4", "MODEL_H5",
                  "MODEL_H6"}
         \/ /\ expr.key.ttype \in
                 {"CONFG_ACQ", "CONFG_ACQ0", "CONFG_ASIC0", "CONFG_ASIC1",
                  "CONFG_BEE", "CONFG_LIKTRG", "CONFG_OBS"}
            /\ expr.operator.ttype = "ISNULL"
            /\ expr.value.ttype = "ISNULL"
         \/ /\ expr.key.ttype \in {"SUBMITTED", "UPLINKED"}
            /\ \/ /\ expr.operator.ttype \in
                        {"GREATER", "GREATER_EQUAL", "LESSER", "LESSER_EQUAL",
                         "EQUAL", "BANG_EQUAL"}
                   /\ expr.value.ttype = "DATETIME"
               \/ /\ expr.operator.ttype = "BY"
                   /\ expr.value.ttype = "LITERAL"
               \/ /\ expr.operator.ttype = "ISNULL"
                   /\ expr.value.ttype = "ISNULL"
    [] OTHER -> FALSE

\* C20: the tree Parser.parse returns holds only combinations the interpreter
\* has a mapping for, and no call ends with InterpreterError
C20_InterpreterErrorUnreachable ==
  \A c \in Calls :
    /\ result[c].status # "InterpreterError"
    /\ pc[c] = "interpret" => Mapped(ast[c])
    /\ (Done(c) /\ ast[c] # NoExpr)
         => Mapped(ast[c]) /\ result[c].status \in {"ok", "ValueError"}

C20_Witness ==
  \E c \in Calls :
    /\ Done(c)
    /\ Text(c) = Typed(<<w_lparen, w_h1, w_or, w_obs, w_rparen, w_and, w_not,
                         w_lparen, w_submitted, w_rparen>>)
    /\ ast[c].node = "Binary"
    /\ ast[c].right.node = "Unary"
    /\ Mapped(ast[c])
    /\ result[c].status = "ok"

\* what each text of the call plans returns or raises
AloneResult(text) ==
  LET uplinked == FieldEquals("uplinked", TRUE)
  IN CASE text = w_h1 -> Ok(H1)
       [] text = Spaced(<<w_not, w_h1>>) -> Ok(Not(H1))
       [] text = Typed(<<w_lparen, w_h1>>) ->
            ParseError("Expected ')' after expression", <<>>)
       [] text = <<>> -> ParseError("An expression cannot start with", <<<<>>>>)
       [] text = Spaced(<<w_not, w_submitted, w_by, w_Bob>>) ->
            Ok(Not(FieldEqualsRelationUsername("author", w_Bob)))
       [] text = Spaced(<<w_uplinked, w_lt, d_month13>>) -> ValueError
       [] text = Typed(<<w_lparen, w_h1, w_or, w_h2, w_rparen, w_and, w_uplinked>>) ->
            Ok(And(Or(H1, H2), uplinked))
       [] \E a \in AssocAtoms, b \in AssocAtoms, x \in AssocAtoms :
            text \in {ParenRight(a, b, x), Flat(a, b, x)} ->
            LET abx == CHOOSE abx \in AssocAtoms \X AssocAtoms \X AssocAtoms :
                         text \in {ParenRight(abx[1], abx[2], abx[3]),
                                   Flat(abx[1], abx[2], abx[3])}
            IN Ok(Or(abx[1].pred, And(abx[2].pred, abx[3].pred)))

\* what a call holds: its Scanner and Parser fields, its position and result
Held(c) ==
  <<pc[c], Scanner_text[c], Scanner_token_list[c], Scanner_start[c],
    Scanner_current[c], Parser_tokens[c], Parser_current[c], stack[c], ret[c],
    ast[c], result[c]>>

\* C21: a call that ends has the result its text has when the call runs
\* alone, whether it ran alone or with one or two other calls
C21_ResultAsAlone ==
  \A c \in Calls : Done(c) => result[c] = AloneResult(Text(c))

\* C21: a step writes the fields of one call only, and never the arguments
C21_StepWritesOwnFields ==
  /\ query' = query
  /\ \A c \in Calls, d \in Calls :
       (Held(c)' # Held(c) /\ Held(d)' # Held(d)) => c = d

\* C21: calls whose steps interleave arbitrarily each return what they return
\* alone, every step writing only the fields of its own call
C21_NoCoordinationNeeded ==
  []C21_ResultAsAlone /\ [][C21_StepWritesOwnFields]_vars

C21_Witness ==
  /\ Done(1) /\ Done(2)
  /\ pc[3] = "idle"
  /\ Text(1) = Typed(<<w_lparen, w_h1, w_or, w_h2, w_rparen, w_and, w_uplinked>>)
  /\ Text(2) = Spaced(<<w_not, w_submitted, w_by, w_Bob>>)
  /\ result[1] = Ok(And(Or(H1, H2), FieldEquals("uplinked", TRUE)))
  /\ result[2] = Ok(Not(FieldEqualsRelationUsername("author", w_Bob)))

\* C22: `not` binds tighter than `and`, written or implied by juxtaposition,
\* which binds tighter than `or`
C22_NotOverAndOverOr ==
  \A c \in Calls :
    Done(c) =>
      \A a \in Atoms, b \in Atoms :
        /\ \A x \in Atoms, w \in {<<>>, <<w_and>>} :
             /\ Text(c) = Spaced(a.words \o <<w_or>> \o b.words \o w \o x.words)
                  => result[c] = Ok(Or(a.pred, And(b.pred, x.pred)))
             /\ Text(c) = Spaced(a.words \o w \o b.words \o <<w_or>> \o x.words)
                  => result[c] = Ok(Or(And(a.pred, b.pred), x.pred))
        /\ \A w \in {<<>>, <<w_and>>} :
             Text(c) = Spaced(<<w_not>> \o a.words \o w \o b.words)
               => result[c] = Ok(And(Not(a.pred), b.pred))
        /\ Text(c) = Spaced(<<w_not>> \o a.words \o <<w_or>> \o b.words)
             => result[c] = Ok(Or(Not(a.pred), b.pred))

C22_Witness ==
  \E c \in Calls :
    /\ Done(c)
    /\ Text(c) = Spaced(<<w_h1, w_or, w_asic0, w_uplinked>>)
    /\ result[c] = Ok(Or(H1, And(FieldIsNotNull(w_asic0),
                                 FieldEquals("uplinked", TRUE))))

\* the text has one of the five shapes of a datetime literal
IsDatetimeText(s) ==
  LET digits(ps) == \A i \in ps : s[i] \in Digit
  IN /\ Len(s) \in {10, 16, 17, 19, 20}
     /\ digits({1, 2, 3, 4, 6, 7, 9, 10})
     /\ s[5] = "-" /\ s[8] = "-"
     /\ Len(s) >= 16 => (s[11] = "T" /\ digits({12, 13, 15, 16}) /\ s[14] = ":")
     /\ Len(s) = 17 => s[17] = "Z"
     /\ Len(s) >= 19 => (s[17] = ":" /\ digits({18, 19}))
     /\ Len(s) = 20 => s[20] = "Z"

\* the lengths of the datetime literals the text has at the 0-based place i
DatetimeLengthsAt(text, i) ==
  {n \in {10, 16, 17, 19, 20} :
     i + n <= Len(text) /\ IsDatetimeText(SubSeq(text, i + 1, i + n))}

\* the scanner of the call is about to read a digit
AtDigit(c) ==
  /\ pc[c] = "scan"
  /\ Scanner_current[c] < Len(Scanner_text[c])
  /\ Scanner_text[c][Scanner_current[c] + 1] \in Digit

\* C23: a step at a digit that starts no datetime literal consumes that one
\* digit, adds no token and raises nothing
C23_StrayDigitStep ==
  \A c \in Calls :
    (/\ AtDigit(c)
     /\ DatetimeLengthsAt(Scanner_text[c], Scanner_current[c]) = {}
     /\ Held(c)' # Held(c))
      => /\ Scanner_current'[c] = Scanner_current[c] + 1
         /\ Scanner_token_list'[c] = Scanner_token_list[c]
         /\ pc'[c] = "scan"
         /\ result'[c] = Pending

\* C23: "h1 N" has the token list of "h1", and a text of such digits only has
\* the token list [EOF]
C23_StrayDigitTexts ==
  \A c \in Calls :
    pc[c] = "parse" =>
      \A n \in {n_7, n_42, n_007}, m \in {n_7, n_42, n_007} :
        /\ Text(c) = Spaced(<<w_h1, n>>)
             => Parser_tokens[c] = <<Token("MODEL_H1", w_h1), Token("EOF", <<>>)>>
        /\ Text(c) \in {n, Spaced(<<n, m>>)}
             => Parser_tokens[c] = <<Token("EOF", <<>>)>>

\* C23: a digit that starts no datetime literal is dropped alone and silently
C23_StrayDigitDropped == []C23_StrayDigitTexts /\ [][C23_StrayDigitStep]_vars

C23_Witness ==
  \E c \in Calls :
    /\ pc[c] = "parse"
    /\ Text(c) = Spaced(<<w_h1, n_42>>)
    /\ Scanner_current[c] = 5
    /\ Parser_tokens[c] = <<Token("MODEL_H1", w_h1), Token("EOF", <<>>)>>

\* the largest element of a non-empty set of numbers
Longest(ns) == CHOOSE n \in ns : \A m \in ns : m <= n

\* C24: a step at a digit that starts datetime literals adds one DATETIME
\* token, the longest of them, and leaves current just past it
C24_DatetimeStep ==
  \A c \in Calls :
    LET text == Scanner_text[c]
        current == Scanner_current[c]
        lengths == DatetimeLengthsAt(text, current)
    IN (/\ AtDigit(c)
        /\ lengths # {}
        /\ Held(c)' # Held(c))
         => /\ Scanner_current'[c] = current + Longest(lengths)
            /\ Scanner_token_list'[c] =
                 Append(Scanner_token_list[c],
                        Token("DATETIME",
                              SubSeq(text, current + 1, current + Longest(lengths))))

\* C24: a text that is one datetime literal is scanned to one DATETIME token
C24_DatetimeTexts ==
  \A c \in Calls :
    (pc[c] = "parse" /\ Text(c) \in Datetimes)
      => Parser_tokens[c] = <<Token("DATETIME", Text(c)), Token("EOF", <<>>)>>

\* C24: the datetime patterns are tried longest first
C24_LongestDatetimeFirst == []C24_DatetimeTexts /\ [][C24_DatetimeStep]_vars

C24_Witness ==
  \E c \in Calls :
    /\ pc[c] = "parse"
    /\ Text(c) = d_secondZ
    /\ DatetimeLengthsAt(Text(c), 0) = {10, 16, 19, 20}
    /\ Parser_tokens[c] = <<Token("DATETIME", d_secondZ), Token("EOF", <<>>)>>

\* C25: "not not a" raises the ParseError naming the second `not`, and
\* "not (not a)" returns Not(Not(a))
C25_DoubleNotTexts ==
  \A c \in Calls :
    Done(c) =>
      \A n \in NotWords, m \in NotWords, a \in Atoms :
        /\ Text(c) = Typed(<<n, m>> \o a.words)
             => result[c] = ParseError("An expression cannot start with", <<m>>)
        /\ Text(c) = Typed(<<n, w_lparen, m>> \o a.words \o <<w_rparen>>)
             => result[c] = Ok(Not(Not(a.pred)))

\* C25: after `not`, Parser._unary calls Parser._primary
C25_UnaryStep ==
  \A c \in Calls :
    (/\ pc[c] = "parsing"
     /\ Top(c).fn = "_unary"
     /\ Top(c).at = "begin"
     /\ TokenAhead(c, 0).ttype = "NOT"
     /\ Steps(c))
      => /\ Len(stack'[c]) = Len(stack[c]) + 1
         /\ stack'[c][Len(stack'[c])].fn = "_primary"
         /\ Parser_current'[c] = Parser_current[c] + 1

\* C25: the operand of `not` is exactly one Primary
C25_NotTakesOnePrimary == []C25_DoubleNotTexts /\ [][C25_UnaryStep]_vars

C25_Witness ==
  \E c \in Calls :
    /\ Done(c)
    /\ Text(c) = Typed(<<w_not, w_lparen, w_not, w_h1, w_rparen>>)
    /\ result[c] = Ok(Not(Not(H1)))

\* C26: once the parser has its tokens, current is a place of the token list
C26_CurrentInTokenList ==
  \A c \in Calls :
    pc[c] \in {"parse", "parsing", "interpret", "done"}
      => /\ 0 <= Parser_current[c]
         /\ Parser_current[c] <= Len(Parser_tokens[c]) - 1

\* C26: no step of the parser moves current back, and none moves it when it
\* is at the EOF token
C26_ParserStep ==
  \A c \in Calls :
    /\ Parser_current'[c] >= Parser_current[c]
    /\ (pc[c] = "parsing" /\ TokenAhead(c, 0).ttype = "EOF")
         => Parser_current'[c] = Parser_current[c]
    /\ pc[c] \in {"parse", "parsing", "interpret"}
         => Parser_tokens'[c] = Parser_tokens[c]

RuledCharacters == {"=", "(", ")", ">", "<", "!", " ", "\t", "\n"} \cup Digit

\* the token types of words
WordTypes ==
  {"MODEL_H1", "MODEL_H2", "MODEL_H3", "MODEL_H4", "MODEL_H5", "MODEL_H6",
   "CONFG_ACQ", "CONFG_ACQ0", "CONFG_ASIC0", "CONFG_ASIC1", "CONFG_BEE",
   "CONFG_LIKTRG", "CONFG_OBS", "SUBMITTED", "UPLINKED", "AND", "OR", "NOT",
   "BY", "LITERAL"}

\* C27: a step of the scanner raises nothing; at a character outside the
\* operator, whitespace and digit rules it adds one word token whose lexeme
\* begins with that character, and at a `!` that no `=` follows a NOT token
C27_ScannerStep ==
  \A c \in Calls :
    LET text == Scanner_text[c]
        current == Scanner_current[c]
    IN (pc[c] = "scan" /\ Held(c)' # Held(c)) =>
         /\ result'[c] = Pending
         /\ pc'[c] \in {"scan", "parse"}
         /\ (current < Len(text) /\ text[current + 1] \notin RuledCharacters)
              => /\ Scanner_current'[c] > current
                 /\ Len(Scanner_token_list'[c]) = Len(Scanner_token_list[c]) + 1
                 /\ LET token == Scanner_token_list'[c][Len(Scanner_token_list'[c])]
                    IN /\ token.ttype \in WordTypes
                       /\ token.lexeme = SubSeq(text, current + 1, Scanner_current'[c])
         /\ (/\ current < Len(text)
             /\ text[current + 1] = "!"
             /\ (current + 1 = Len(text) \/ text[current + 2] # "="))
              => /\ Scanner_current'[c] = current + 1
                 /\ Scanner_token_list'[c] =
                      Append(Scanner_token_list[c], Token("NOT", w_bang))

\* C27: the token lists of texts with such characters
C27_UnrulyTexts ==
  \A c \in Calls :
    pc[c] = "parse" =>
      LET tokens == Parser_tokens[c]
          EOF == Token("EOF", <<>>)
      IN /\ \A o \in OtherWords \ {w_a_minus_b} :
              /\ Text(c) = o => tokens = <<Token("LITERAL", o), EOF>>
              /\ Text(c) = Spaced(<<w_h1, o>>)
                   => tokens = <<Token("MODEL_H1", w_h1), Token("LITERAL", o), EOF>>
              /\ Text(c) = w_h1 \o o \o w_h2
                   => tokens = <<Token("MODEL_H1", w_h1), Token("LITERAL", o \o w_h2), EOF>>
         /\ Text(c) = w_a_minus_b
              => tokens = <<Token("LITERAL", <<"a">>), Token("LITERAL", <<"-", "b">>), EOF>>
         /\ Text(c) = w_bang => tokens = <<Token("NOT", w_bang), EOF>>
         /\ Text(c) = w_bang \o w_h1
              => tokens = <<Token("NOT", w_bang), Token("MODEL_H1", w_h1), EOF>>
         /\ Text(c) = w_bang \o w_bang
              => tokens = <<Token("NOT", w_bang), Token("NOT", w_bang), EOF>>

\* C27: Scanner.scan_tokens raises no error
C27_ScannerRaisesNothing == []C27_UnrulyTexts /\ [][C27_ScannerStep]_vars

C27_Witness ==
  \E c \in Calls :
    /\ pc[c] = "parse"
    /\ Text(c) = w_h1 \o w_quote \o w_h2
    /\ result[c] = Pending
    /\ Parser_tokens[c] =
         <<Token("MODEL_H1", w_h1), Token("LITERAL", w_quote \o w_h2),
           Token("EOF", <<>>)>>

\* C28: every Scanner._scan_token consumes at least one character, every
\* Parser._primary consumes at least one token or raises ParseError, and a
\* repetition of the loop of Parser._or consumes its `or`
C28_ProgressStep ==
  \A c \in Calls :
    /\ (/\ pc[c] = "scan"
        /\ Scanner_current[c] < Len(Scanner_text[c])
        /\ Held(c)' # Held(c))
         => Scanner_current'[c] >= Scanner_current[c] + 1
    /\ (AtPrimary(c) /\ Steps(c))
         => \/ pc'[c] = "done" /\ result'[c].status = "ParseError"
            \/ Parser_current'[c] >= Parser_current[c] + 1
    /\ (/\ pc[c] = "parsing"
        /\ Top(c).fn = "_or"
        /\ Top(c).at \in {"first", "right"}
        /\ Len(stack'[c]) > Len(stack[c]))
         => Parser_current'[c] = Parser_current[c] + 1
    /\ (/\ pc[c] = "parsing"
        /\ Top(c).fn = "_and"
        /\ Top(c).at \in {"first", "right"}
        /\ Len(stack'[c]) > Len(stack[c]))
         => /\ TokenAhead(c, 0).ttype # "EOF"
            /\ stack'[c][Len(stack'[c])].fn = "_unary"

\* C28: the call returns a predicate or raises
C28_Returned == Done(1) /\ result[1] # Pending

\* C28: interpret_search_query terminates on every input
C28_Terminates == <>C28_Returned /\ [][C28_ProgressStep]_vars

C28_Witness ==
  /\ Done(1)
  /\ Text(1) = Spaced(<<w_h1, n_7, w_and, n_42, w_h2>>)
  /\ Scanner_current[1] = Len(Text(1))
  /\ result[1] = Ok(And(H1, H2))

\* C29 as stated: for every status word s and datetime literal d, "s != d"
\* returns Not(FieldEquals(field(s), d))
C29_NotEqualIsNegatedEquality ==
  \A c \in Calls :
    Done(c) =>
      \A w \in StatusWords, d \in Datetimes :
        Text(c) = Spaced(<<w, w_ne, d>>)
          => /\ result[c].status = "ok"
             /\ result[c].value.q = "NOT"
             /\ result[c].value.right.keyword = <<TimeFieldNamed(w)>>
             /\ d \in ValidDatetimes
                  => result[c] = Ok(Not(FieldEquals(TimeFieldNamed(w),
                                                    DatetimeNamed(d))))

\* C30 as stated: for every username U of alphanumeric characters, "_" and
\* ".", "submitted by U" returns FieldEqualsRelationUsername(author, U)
C30_UsernameAsTyped ==
  \A c \in Calls :
    Done(c) =>
      \A u \in TypedUsernames :
        Text(c) = Spaced(<<w_submitted, w_by, u>>)
          => result[c] = Ok(FieldEqualsRelationUsername("author", u))

====
